---- MODULE Spec2Model ----
(***************************************************************************)
(* Client-side streaming event reconciliation of the chat interface        *)
(* (src/app/components/ChatInterface.tsx): the send handler and its stream *)
(* callbacks, the incremental text accumulator, the event normalizer and   *)
(* the SSE transport reader.                                               *)
(*                                                                         *)
(* Text is a sequence of characters over Alphabet.  JSON payloads are      *)
(* records that keep the fields the code reads.  Date.now()-derived ids    *)
(* are fresh names ("ts1", ...), distinct from the ids the upstream sends. *)
(***************************************************************************)
EXTENDS Naturals, Integers, Sequences, FiniteSets, TLC

\* ------------------------------------------------------------- bounds
\* longest text of one streamed chunk
MaxChunkLen == 2
\* longest accumulated text of one message
MaxContentLen == 4
\* number of sends (requests) of one session
MaxSends == 2
\* number of messages shown in one session
MaxMessages == 3
\* number of summarization bubbles of one session
MaxSummaries == 2
\* number of frames of one response body
MaxFrames == 3
\* number of frames of a body read in every possible splitting
MaxSplitFrames == 2
\* scenarios selected in a run of the approval model (changes + 1)
MaxScenarios == 2
\* model_request events counted in a run of the statistics model
MaxModelCalls == 3
\* updates one agent stream yields to streamResponse
MaxUpdates == 3

\* ------------------------------------------------------------- text
Alphabet == {"a", "b"}

RECURSIVE TextsOfLen(_)
TextsOfLen(n) ==
  IF n = 0 THEN {<<>>}
  ELSE {Append(t, c) : t \in TextsOfLen(n - 1), c \in Alphabet}

TextsUpTo(n) == UNION {TextsOfLen(k) : k \in 0..n}

\* String.prototype.startsWith
StartsWith(s, p) == Len(p) <= Len(s) /\ SubSeq(s, 1, Len(p)) = p

\* ------------------------------------------------------------- ids
\* message ids assigned by the upstream model
UpstreamIds == {"m1", "m2"}
\* undefined / empty id (falsy in the code's `msgId || ...` tests)
NoId == ""
\* (Date.now() + 1).toString() of the n-th send
SynthId(n) == <<"ts1", "ts2", "ts3", "ts4", "ts5", "ts6">>[n]
SynthIds == {SynthId(n) : n \in 1..MaxSends}
AccKeys == UpstreamIds \cup SynthIds
ToolIds == {"t1", "t2"}

\* ------------------------------------------------------------- payloads
\* Message content: absent, a plain string, or an ordered list of typed
\* parts ({type: "text", text} | {type: "input_json_delta", input}).
NoContent == [ck |-> "none", text |-> <<>>, parts |-> <<>>]
StrContent(t) == [ck |-> "str", text |-> t, parts |-> <<>>]
PartsContent(ps) == [ck |-> "parts", text |-> <<>>, parts |-> ps]
TextPart(t) == [type |-> "text", text |-> t]
JsonDeltaPart(t) == [type |-> "input_json_delta", text |-> t]

\* A tool call descriptor {id, name, args}; args is "partial" on a first
\* sighting in a chunk, "final" in a model_request event, "empty" in a
\* placeholder.
ToolCallRec(id, name, args) == [id |-> id, name |-> name, args |-> args]

\* A message object of a stream payload, with the fields the code reads.
\*   type     the `type` discriminator ("ai", "tool", "human"; "constructor"
\*            on a serialized legacy message)
\*   lc       1 when the `lc` key is present, else 0
\*   idStr    the `id` when it is a string, else NoId
\*   idTag    id[2] when `id` is a tag array, else ""
\*   content, tool_calls, tool_call_id, name, status: fields directly on the
\*            object (absent: NoContent, <<>>, NoId)
\*   hasKwargs, kwargs: the legacy wrapper object holding the same fields
NoKwargs ==
  [id |-> NoId, content |-> NoContent, tool_calls |-> <<>>,
   tool_call_id |-> NoId, name |-> NoId, status |-> NoId]

FlatAI(mid, content, tcs) ==
  [type |-> "ai", lc |-> 0, idStr |-> mid, idTag |-> "",
   content |-> content, tool_calls |-> tcs,
   tool_call_id |-> NoId, name |-> NoId, status |-> NoId,
   hasKwargs |-> FALSE, kwargs |-> NoKwargs]

LegacyMsg(tag, kw) ==
  [type |-> "constructor", lc |-> 1, idStr |-> NoId, idTag |-> tag,
   content |-> NoContent, tool_calls |-> <<>>,
   tool_call_id |-> NoId, name |-> NoId, status |-> NoId,
   hasKwargs |-> TRUE, kwargs |-> kw]

LegacyAI(mid, content, tcs) ==
  LegacyMsg("AIMessageChunk",
            [NoKwargs EXCEPT !.id = mid, !.content = content, !.tool_calls = tcs])

FlatTool(tcid, tname, status) ==
  [type |-> "tool", lc |-> 0, idStr |-> NoId, idTag |-> "",
   content |-> NoContent, tool_calls |-> <<>>,
   tool_call_id |-> tcid, name |-> tname, status |-> status,
   hasKwargs |-> FALSE, kwargs |-> NoKwargs]

LegacyTool(tcid, tname, status) ==
  LegacyMsg("ToolMessage",
            [NoKwargs EXCEPT !.tool_call_id = tcid, !.name = tname, !.status = status])

FlatHuman ==
  [type |-> "human", lc |-> 0, idStr |-> NoId, idTag |-> "",
   content |-> NoContent, tool_calls |-> <<>>,
   tool_call_id |-> NoId, name |-> NoId, status |-> NoId,
   hasKwargs |-> FALSE, kwargs |-> NoKwargs]

\* LangGraph metadata: node is langgraph_node ("" when the key is absent),
\* trig is whether langgraph_triggers includes
\* "branch:to:SummarizationMiddleware.before_model".
SummNode == "SummarizationMiddleware.before_model"
Meta(node, trig) == [node |-> node, trig |-> trig]

\* The data of an update event: a two-element array [message, metadata]
\* (dk "pair"), an object keyed by the summarization middleware (dk
\* "summary"; prefixed = its summary message starts with the summary prefix,
\* msg.content holds the text after it), or any other object such as {} (dk
\* "other").
PairData(msg, meta) == [dk |-> "pair", msg |-> msg, meta |-> meta, prefixed |-> FALSE]
SummaryData(t, pre) ==
  [dk |-> "summary", msg |-> FlatAI(NoId, StrContent(t), <<>>),
   meta |-> Meta("", FALSE), prefixed |-> pre]
OtherData == [dk |-> "other"]

\* The data of the other events: {model_request: {messages}}, {tools:
\* {messages}}, {messages} (agent_state) and a HITL request
\* {actionRequests, reviewConfigs}.
ModelRequestData(msgs) == [dk |-> "model_request", messages |-> msgs]
ToolsData(msgs) == [dk |-> "tools", messages |-> msgs]
AgentStateData(msgs) == [dk |-> "agent_state", messages |-> msgs]
HITLRequest(actionRequests, reviewConfigs) ==
  [present |-> TRUE, actionRequests |-> actionRequests, reviewConfigs |-> reviewConfigs,
   action_requests |-> <<>>, review_configs |-> <<>>]

\* the object of an interrupt frame as it may arrive: any JSON object, with
\* the camelCase keys, the snake_case keys, or both (<<>> = key absent or [])
InterruptObject(actionRequests, reviewConfigs, action_requests, review_configs) ==
  [present |-> TRUE, actionRequests |-> actionRequests, reviewConfigs |-> reviewConfigs,
   action_requests |-> action_requests, review_configs |-> review_configs]

\* {name, args} and {actionName, allowedDecisions}
ActionRequest(name, args) == [name |-> name, args |-> args]
ReviewConfig(actionName, allowedDecisions) ==
  [actionName |-> actionName, allowedDecisions |-> allowedDecisions]

\* ------------------------------------------------------------- shape tests
isAIMessageChunk(chunk) ==
  \/ chunk.type = "ai"
  \/ chunk.lc = 1 /\ chunk.hasKwargs /\ chunk.idTag = "AIMessageChunk"

isToolMessage(chunk) ==
  \/ chunk.type = "tool"
  \/ chunk.lc = 1 /\ chunk.hasKwargs /\ chunk.idTag = "ToolMessage"

\* ------------------------------------------------------------- text extraction
\* null, or a string
NullText == [null |-> TRUE, text |-> <<>>]
SomeText(t) == [null |-> FALSE, text |-> t]

RECURSIVE ConcatTextParts(_)
ConcatTextParts(parts) ==
  IF parts = <<>> THEN <<>>
  ELSE (IF Head(parts).type = "text" THEN Head(parts).text ELSE <<>>)
       \o ConcatTextParts(Tail(parts))

\* a falsy content: undefined, or the empty string
Falsy(content) ==
  content.ck = "none" \/ (content.ck = "str" /\ content.text = <<>>)

\* extractIncrementalTextFromChunk: msg.content, else kwargs.content when
\* that is falsy; a falsy content gives null, a string is returned as it is,
\* of a list only the parts of type "text" contribute (`text || null`).
extractIncrementalTextFromChunk(msg) ==
  LET content == IF Falsy(msg.content) /\ msg.hasKwargs
                 THEN msg.kwargs.content ELSE msg.content
  IN
  CASE Falsy(content) -> NullText
    [] content.ck = "str" -> SomeText(content.text)
    [] content.ck = "parts" ->
         LET text == ConcatTextParts(content.parts) IN
         IF text = <<>> THEN NullText ELSE SomeText(text)

\* const msgId = typeof msg.id === "string" ? msg.id : msg.kwargs?.id
MsgIdOf(msg) ==
  IF msg.idStr # NoId THEN msg.idStr
  ELSE IF msg.hasKwargs THEN msg.kwargs.id ELSE NoId

\* msg.tool_calls || msg.kwargs?.tool_calls || []
ToolCallsOf(msg) ==
  IF msg.tool_calls # <<>> THEN msg.tool_calls
  ELSE IF msg.hasKwargs THEN msg.kwargs.tool_calls ELSE <<>>

\* toolMsg.tool_call_id || toolMsg.kwargs?.tool_call_id
ToolCallIdOf(toolMsg) ==
  IF toolMsg.tool_call_id # NoId THEN toolMsg.tool_call_id
  ELSE IF toolMsg.hasKwargs THEN toolMsg.kwargs.tool_call_id ELSE NoId

\* toolMsg.name || toolMsg.kwargs?.name || "unknown"
ToolNameOf(toolMsg) ==
  IF toolMsg.name # NoId THEN toolMsg.name
  ELSE IF toolMsg.hasKwargs /\ toolMsg.kwargs.name # NoId THEN toolMsg.kwargs.name
  ELSE "unknown"

\* the status a tool message carries, wherever its shape holds it
ToolStatusOf(toolMsg) ==
  IF toolMsg.status # NoId THEN toolMsg.status
  ELSE IF toolMsg.hasKwargs THEN toolMsg.kwargs.status ELSE NoId

\* ------------------------------------------------------------- accumulator
\* The replacement-vs-append rules of processUpdate's text branch: the new
\* accumulated text for accumulated text `cur` and a non-empty chunk text.
AccumulateAlwaysAppend(cur, chunkText) == cur \o chunkText

AccumulateNoDuplicateRule(cur, chunkText) ==
  IF cur = <<>> THEN chunkText
  ELSE IF StartsWith(chunkText, cur) /\ Len(chunkText) > Len(cur) THEN chunkText
  ELSE cur \o chunkText

AccumulateReplaceAlways(cur, chunkText) == chunkText

Accumulate(cur, chunkText) ==
  IF cur = <<>> THEN chunkText
  ELSE IF StartsWith(chunkText, cur) /\ Len(chunkText) > Len(cur) THEN chunkText
  ELSE IF chunkText = cur THEN cur
  ELSE cur \o chunkText

\* ------------------------------------------------------------- statistics
\* StatisticsContext.  The file holds two definitions of StatisticsProvider
\* that differ in recordContextWindowSize only; a build has one of them.
ToolNames == {"send_email", "search"}

\* useState<Statistics>({toolCalls: new Map(), modelCalls: 0, tokens: {0, 0, 0}, contextWindowSize: 0})
InitialStatistics ==
  [toolCalls |-> [n \in ToolNames |-> 0], modelCalls |-> 0,
   tokens |-> [input |-> 0, output |-> 0, total |-> 0], contextWindowSize |-> 0]

recordToolCall(prev, toolName) ==
  [prev EXCEPT !.toolCalls[toolName] = @ + 1]

recordModelCall(prev) == [prev EXCEPT !.modelCalls = @ + 1]

recordTokens(prev, input, output, total) ==
  [prev EXCEPT !.tokens = [input |-> @.input + input, output |-> @.output + output,
                           total |-> @.total + total]]

\* first definition: contextWindowSize is replaced
recordContextWindowSizeFirst(prev, size) == [prev EXCEPT !.contextWindowSize = size]

\* second definition: Math.max(prev.contextWindowSize, size)
recordContextWindowSizeSecond(prev, size) ==
  [prev EXCEPT !.contextWindowSize = IF size > @ THEN size ELSE @]

recordContextWindowSize(provider, prev, size) ==
  IF provider = 1 THEN recordContextWindowSizeFirst(prev, size)
  ELSE recordContextWindowSizeSecond(prev, size)

resetStatistics == InitialStatistics

\* the text countTokensApproximately reads from a message: the string
\* content, or the text parts of an array content joined
RECURSIVE JoinedTextParts(_)
JoinedTextParts(parts) ==
  IF parts = <<>> THEN <<>>
  ELSE (IF Head(parts).type = "text" THEN Head(parts).text ELSE <<>>)
       \o JoinedTextParts(Tail(parts))
TextContentOf(msg) ==
  IF msg.content.ck = "str" THEN msg.content.text
  ELSE IF msg.content.ck = "parts" THEN JoinedTextParts(msg.content.parts)
  ELSE <<>>

\* countTokens(text) of the tokenizer: one token per symbol of the text
countTokens(text) == Len(text)

RECURSIVE countTokensApproximately(_)
countTokensApproximately(msgs) ==
  IF msgs = <<>> THEN 0
  ELSE countTokens(TextContentOf(Head(msgs))) + countTokensApproximately(Tail(msgs))

\* ------------------------------------------------------------- state
VARIABLES
  \* React state of ChatInterface
  messages,               \* BaseMessage[]: sequence of [id, role, content]
  isLoading,              \* boolean
  toolCalls,              \* Map<string, ToolCallState>
  interruptData,          \* HITLRequest | null
  currentThreadId,        \* string | undefined (NoId)
  errors,                 \* Map<message id, error message> ("" = no entry)
  summarizations,         \* SummarizationEvent[]
  \* refs of ChatInterface
  messageCount,           \* messageCountRef.current
  summarizationContent,   \* summarizationContentRef.current
  currentSummarizationId, \* currentSummarizationIdRef.current (NoId = null)
  \* one entry per call of handleSend that issued a request (its closure)
  stage,                  \* "idle" | "fetching" | "failed" | "reading" | "closed" |
                          \* "rejected" (read() rejected) | "thrown" (a callback threw)
  request,                \* the body of the POST in flight: [threadId, message, interruptResponse]
  threadId,               \* const threadId (NoId before the send reaches it)
  apiEndpoint,            \* const apiEndpoint: the scenario the send was made under (0 = none)
  currentAssistantId,     \* let currentAssistantId
  accumulated,            \* accumulatedContentByMessageRef: id -> text ("" = no entry)
  \* observation
  lastText,               \* the last run of processUpdate's text branch
  unhandled,              \* the promise rejection that escaped unhandled ("" = none)
  \* the event normalizer applied to one delta in its two representations
  norm,
  \* readStream: the response body and the locals of the read loop
  wire,                   \* the frames of the response body
  arrived,                \* number of pieces of text decoded so far
  buffer,                 \* the text after the last "\n" decoded so far
  currentEventType,       \* string | null (NoLabel)
  currentData,            \* unknown | null (NullData)
  dispatched,             \* the callbacks invoked so far, in order
  reader,                 \* "idle" | "reading" | "done" | "thrown"
  closed,                 \* whether the underlying stream has closed
  \* the selectedScenario prop, counted by its changes
  selectedScenario,
  \* React state of the mounted InterruptBubble
  rejectionMessage,       \* string
  editingActionIndex,     \* number | null (NoIndex)
  editedArgs,             \* Record<string, unknown>
  showRejectionInput,     \* boolean
  \* the HITL route: the request body it was given and what it did with it
  postBody,               \* const body = await request.json()
  postOutcome,            \* the response status, and how hitlAgent was called
  \* streamResponse: the agent stream it iterates and the body it produces
  agentStream,            \* "none" | "open" | "done" (exhausted) | "thrown"
  yielded,                \* the updates the agent stream has yielded, in order
  enqueued,               \* the chunks passed to controller.enqueue, in order
  controller,             \* "none" | "open" | "closed"
  \* StatisticsContext, and the refs of ChatInterface that feed it
  statistics,             \* Statistics: toolCalls, modelCalls, tokens, contextWindowSize
  processedTokenMessages, \* processedTokenMessagesRef.current
  processedToolCallIds,   \* processedToolCallIdsRef.current
  statisticsProvider      \* which of the two StatisticsProvider definitions is built

clientVars ==
  <<messages, isLoading, toolCalls, interruptData, currentThreadId, errors,
    summarizations, messageCount, summarizationContent, currentSummarizationId>>
sendVars == <<stage, request, threadId, apiEndpoint, currentAssistantId, accumulated>>
obsVars == <<lastText, unhandled>>
normVars == <<norm>>
streamVars ==
  <<wire, arrived, buffer, currentEventType, currentData, dispatched, reader, closed>>
bubbleVars == <<rejectionMessage, editingActionIndex, editedArgs, showRejectionInput>>
serverVars == <<postBody, postOutcome, agentStream, yielded, enqueued, controller>>
statVars ==
  <<statistics, processedTokenMessages, processedToolCallIds, statisticsProvider>>

Sends == 1..MaxSends

\* a message of the list; a HumanMessage and the key warning carry no id
Msg(id, role, content) == [id |-> id, role |-> role, content |-> content]
UserText == <<"u">>
KeyWarning == <<"w">>

\* a ToolCallState; present = FALSE stands for "no entry in the Map"
NoToolCall ==
  [present |-> FALSE, name |-> "", args |-> "", toolMessage |-> "",
   aiMessageId |-> "", errored |-> FALSE]
ToolCallState(tc, tm, owner) ==
  [present |-> TRUE, name |-> tc.name, args |-> tc.args, toolMessage |-> tm,
   aiMessageId |-> owner, errored |-> FALSE]

NoInterrupt ==
  [present |-> FALSE, actionRequests |-> <<>>, reviewConfigs |-> <<>>,
   action_requests |-> <<>>, review_configs |-> <<>>]
\* interruptResponse undefined: the key is left out of the body
NoResponse == <<>>
NoRequest == [threadId |-> NoId, message |-> <<>>, interruptResponse |-> NoResponse]
\* editingActionIndex = null, and the args objects of an action request
NoIndex == -1
EmptyArgs == "{}"
NoLastText == [send |-> 0, key |-> NoId, text |-> <<>>, before |-> <<>>, again |-> FALSE]
NoNorm == [set |-> FALSE]
\* null, as a label and as parsed data
NoLabel == ""
NullData == [dk |-> "null"]

EmptyAccumulated == [k \in AccKeys |-> <<>>]

\* ------------------------------------------------------------- processUpdate
\* setMessages(prev => prev.some(m => m.id === msgId) ? prev : [...prev, new AIMessage({id, content: ""})])
WithBubbleAlways(msgs, msgId) ==
  Append(msgs, Msg(msgId, "assistant", <<>>))

WithBubbleFirst(msgs, msgId) ==
  IF \E i \in DOMAIN msgs : msgs[i].id = msgId THEN msgs
  ELSE <<Msg(msgId, "assistant", <<>>)>> \o msgs

WithBubble(msgs, msgId) ==
  IF \E i \in DOMAIN msgs : msgs[i].id = msgId THEN msgs
  ELSE Append(msgs, Msg(msgId, "assistant", <<>>))

\* setMessages(prev => prev.map(m => m.id === messageId ? new AIMessage({...m, content}) : m))
WithContentLast(msgs, messageId, content) ==
  [i \in DOMAIN msgs |->
     IF i = Len(msgs) /\ msgs[i].role = "assistant"
     THEN Msg(msgs[i].id, "assistant", content) ELSE msgs[i]]

WithContent(msgs, messageId, content) ==
  [i \in DOMAIN msgs |->
     IF msgs[i].id = messageId
     THEN Msg(msgs[i].id, "assistant", content) ELSE msgs[i]]

\* for (const toolCall of toolCallsFromMsg) setToolCalls(prev => prev.has(id) ? prev : prev + entry)
RECURSIVE WithSightedCallsOverwriting(_, _, _)
WithSightedCallsOverwriting(tcs, calls, owner) ==
  IF calls = <<>> THEN tcs
  ELSE WithSightedCallsOverwriting(
         [tcs EXCEPT ![Head(calls).id] = ToolCallState(Head(calls), "", owner)],
         Tail(calls), owner)

RECURSIVE WithSightedCalls(_, _, _)
WithSightedCalls(tcs, calls, owner) ==
  IF calls = <<>> THEN tcs
  ELSE LET tc == Head(calls)
           next == IF tcs[tc.id].present THEN tcs
                   ELSE [tcs EXCEPT ![tc.id] = ToolCallState(tc, "", owner)]
       IN WithSightedCalls(next, Tail(calls), owner)

\* updateToolCallWithMessage: attach the tool message to the entry of its
\* tool_call_id, or create a placeholder entry owned by currentAssistantId.
WithToolMessageDetached(tcs, toolMsg, owner) ==
  LET toolCallId == ToolCallIdOf(toolMsg) IN
  IF toolCallId = NoId THEN tcs
  ELSE IF tcs[toolCallId].present
       THEN [tcs EXCEPT ![toolCallId].toolMessage = ToolStatusOf(toolMsg)]
       ELSE [tcs EXCEPT ![toolCallId] =
               ToolCallState(ToolCallRec(toolCallId, ToolNameOf(toolMsg), "empty"),
                             "", owner)]

WithToolMessage(tcs, toolMsg, owner) ==
  LET toolCallId == ToolCallIdOf(toolMsg) IN
  IF toolCallId = NoId THEN tcs
  ELSE IF tcs[toolCallId].present
       THEN [tcs EXCEPT ![toolCallId].toolMessage = ToolStatusOf(toolMsg)]
       ELSE [tcs EXCEPT ![toolCallId] =
               ToolCallState(ToolCallRec(toolCallId, ToolNameOf(toolMsg), "empty"),
                             ToolStatusOf(toolMsg), owner)]

\* metadata check for the summarization middleware
isSummarizationMessage(meta) == meta.node = SummNode \/ meta.trig

\* "Here is a summary of the conversation to date:" and its removal from the
\* displayed summary
SummaryPrefix == <<"b", "b">>
DisplaySummary(t) ==
  IF StartsWith(t, SummaryPrefix) THEN SubSeq(t, Len(SummaryPrefix) + 1, Len(t)) ELSE t

Summarization(id, summary, after, streaming) ==
  [id |-> id, summary |-> summary, afterMessageIndex |-> after, isStreaming |-> streaming]

\* `summarization-${Date.now()}` of the n-th summarization of the session
SummarizationId(n) == <<"s1", "s2", "s3", "s4", "s5", "s6">>[n]

Max(a, b) == IF a >= b THEN a ELSE b

\* parseSummarizationEvent(data, messageCountRef.current, append), run only
\* while no summarization is streaming: an object keyed by the middleware
\* whose summary message starts with the prefix and has text after it adds a
\* summarization after the last message.
ParsedSummarizations(data) ==
  IF /\ currentSummarizationId = NoId
     /\ data.dk = "summary"
     /\ data.prefixed
     /\ ~extractIncrementalTextFromChunk(data.msg).null
  THEN Append(summarizations,
              Summarization(SummarizationId(Len(summarizations) + 1),
                            extractIncrementalTextFromChunk(data.msg).text,
                            Max(0, messageCount - 1), FALSE))
  ELSE summarizations

\* data is not a two-element array: only parseSummarizationEvent has run
UpdateNotPair(s, data) ==
  /\ Len(ParsedSummarizations(data)) <= MaxSummaries
  /\ summarizations' = ParsedSummarizations(data)
  /\ UNCHANGED <<messages, isLoading, toolCalls, interruptData, currentThreadId,
                 errors, messageCount, summarizationContent, currentSummarizationId>>
  /\ UNCHANGED <<sendVars, obsVars>>

\* [ToolMessage, metadata]
UpdateToolMessage(s, data) ==
  /\ toolCalls' = WithToolMessage(toolCalls, data.msg, currentAssistantId[s])
  /\ UNCHANGED <<messages, isLoading, interruptData, currentThreadId, errors,
                 summarizations, messageCount, summarizationContent,
                 currentSummarizationId>>
  /\ UNCHANGED <<sendVars, obsVars>>

\* [AIMessageChunk, metadata] of the summarization middleware: streamed into
\* the summarization bubble, never into a message
UpdateSummarization(s, data) ==
  LET chunk == extractIncrementalTextFromChunk(data.msg)
      fresh == currentSummarizationId = NoId
      sid == IF fresh THEN SummarizationId(Len(summarizations) + 1)
             ELSE currentSummarizationId
      started == IF fresh
                 THEN Append(summarizations,
                             Summarization(sid, <<>>, Max(0, messageCount - 1), TRUE))
                 ELSE summarizations
      cur == IF fresh THEN <<>> ELSE summarizationContent
      updated == Accumulate(cur, chunk.text)
  IN
  IF chunk.null \/ chunk.text = <<>>
  THEN UNCHANGED <<clientVars, sendVars, obsVars>>
  ELSE /\ Len(started) <= MaxSummaries
       /\ Len(updated) <= MaxContentLen
       /\ currentSummarizationId' = sid
       /\ summarizationContent' = updated
       /\ summarizations' =
            IF updated # cur
            THEN [i \in DOMAIN started |->
                    IF started[i].id = sid
                    THEN [started[i] EXCEPT !.summary = DisplaySummary(updated),
                                            !.isStreaming = TRUE]
                    ELSE started[i]]
            ELSE started
       /\ UNCHANGED <<messages, isLoading, toolCalls, interruptData,
                      currentThreadId, errors, messageCount>>
       /\ UNCHANGED <<sendVars, obsVars>>

\* [AIMessageChunk, metadata] of the model: a new message id opens a bubble,
\* the text branch accumulates, then the chunk's tool calls are registered.
\* A duplicate chunk returns before the tool calls are looked at.
UpdateAIChunk(s, data) ==
  LET msg == data.msg
      msgId == MsgIdOf(msg)
      isNew == msgId # NoId /\ msgId # currentAssistantId[s]
      assistantId == IF isNew THEN msgId ELSE currentAssistantId[s]
      messageId == IF msgId # NoId THEN msgId ELSE currentAssistantId[s]
      opened == IF isNew THEN WithBubble(messages, msgId) ELSE messages
      chunk == extractIncrementalTextFromChunk(msg)
      hasText == ~chunk.null /\ chunk.text # <<>>
      cur == accumulated[s][messageId]
      updated == IF hasText THEN Accumulate(cur, chunk.text) ELSE cur
      duplicate == hasText /\ cur # <<>> /\ chunk.text = cur
      owner == IF msgId # NoId THEN msgId ELSE assistantId
  IN
  /\ Len(updated) <= MaxContentLen
  /\ currentAssistantId' = [currentAssistantId EXCEPT ![s] = assistantId]
  /\ messageCount' = IF Len(opened) # Len(messages) THEN Len(opened) ELSE messageCount
  /\ accumulated' = [accumulated EXCEPT ![s][messageId] = updated]
  /\ messages' = IF updated # cur THEN WithContent(opened, messageId, updated) ELSE opened
  /\ toolCalls' = IF duplicate THEN toolCalls
                  ELSE WithSightedCalls(toolCalls, ToolCallsOf(msg), owner)
  /\ lastText' =
       IF hasText
       THEN [send |-> s, key |-> messageId, text |-> chunk.text, before |-> cur,
             again |-> lastText.send = s /\ lastText.key = messageId
                       /\ lastText.text = chunk.text]
       ELSE lastText
  /\ UNCHANGED <<isLoading, interruptData, currentThreadId, errors, summarizations,
                 summarizationContent, currentSummarizationId>>
  /\ UNCHANGED <<stage, request, threadId, apiEndpoint, unhandled>>

\* const processUpdate = (data: UpdateData) => ...   (the update callback)
processUpdate(s, data) ==
  /\ stage[s] = "reading"
  /\ IF data.dk # "pair" THEN UpdateNotPair(s, data)
     ELSE IF isToolMessage(data.msg)
          THEN UpdateToolMessage(s, data)
     ELSE IF ~isAIMessageChunk(data.msg)
          THEN UNCHANGED <<clientVars, sendVars, obsVars>>
     ELSE IF isSummarizationMessage(data.meta) THEN UpdateSummarization(s, data)
     ELSE UpdateAIChunk(s, data)

\* ------------------------------------------------------------- inputs
ChunkTexts == TextsUpTo(MaxChunkLen)

Contents ==
  {NoContent}
  \cup {StrContent(t) : t \in ChunkTexts}
  \cup {PartsContent(<<TextPart(t1), JsonDeltaPart(<<"a">>), TextPart(t2)>>) :
          t1 \in TextsUpTo(1), t2 \in TextsUpTo(MaxChunkLen - 1)}

SightedCalls ==
  {<<>>} \cup {<<ToolCallRec(t, "send_email", "partial")>> : t \in ToolIds}

AIChunksOf(ids, contents, calls) ==
  {FlatAI(id, c, tcs) : id \in ids, c \in contents, tcs \in calls}
  \cup {LegacyAI(id, c, tcs) : id \in ids, c \in contents, tcs \in calls}

AIChunks == AIChunksOf(UpstreamIds \cup {NoId}, Contents, SightedCalls)

ToolMessages ==
  {FlatTool(t, n, st) :
     t \in ToolIds \cup {NoId}, n \in {NoId, "send_email"}, st \in {"success", "error"}}
  \cup
  {LegacyTool(t, n, st) :
     t \in ToolIds \cup {NoId}, n \in {NoId, "send_email"}, st \in {"success", "error"}}

Metas == {Meta("model", FALSE), Meta(SummNode, FALSE), Meta("", TRUE), Meta("", FALSE)}

UpdateDatas ==
  {PairData(m, meta) : m \in AIChunks \cup ToolMessages \cup {FlatHuman}, meta \in Metas}
  \cup {SummaryData(t, pre) : t \in ChunkTexts, pre \in BOOLEAN}
  \cup {OtherData}

\* ------------------------------------------------------------- initial states
\* no response body is being read
NoBubble ==
  /\ rejectionMessage = ""
  /\ editingActionIndex = NoIndex
  /\ editedArgs = EmptyArgs
  /\ showRejectionInput = FALSE

\* the HITL route has not been called
NoStreamResponse ==
  /\ agentStream = "none"
  /\ yielded = <<>>
  /\ enqueued = <<>>
  /\ controller = "none"

NoServer ==
  /\ postBody = [set |-> FALSE]
  /\ postOutcome = [set |-> FALSE]
  /\ NoStreamResponse

\* nothing recorded yet.  The specifications that record no statistics are
\* run with the later of the two provider definitions.
NoStatistics ==
  /\ statistics = InitialStatistics
  /\ processedTokenMessages = {}
  /\ processedToolCallIds = {}
  /\ statisticsProvider = 2

\* the first scenario is selected, no bubble is mounted, no request served
NoApproval ==
  /\ selectedScenario = 1
  /\ NoBubble
  /\ NoServer

\* no response body is being read
NoStream ==
  /\ wire = <<>>
  /\ arrived = 0
  /\ buffer = <<>>
  /\ currentEventType = NoLabel
  /\ currentData = NullData
  /\ dispatched = <<>>
  /\ reader = "idle"
  /\ closed = FALSE

Init ==
  /\ messages = <<>>
  /\ isLoading = FALSE
  /\ toolCalls = [t \in ToolIds |-> NoToolCall]
  /\ interruptData = NoInterrupt
  /\ currentThreadId = NoId
  /\ errors = [k \in AccKeys |-> ""]
  /\ summarizations = <<>>
  /\ messageCount = 0
  /\ summarizationContent = <<>>
  /\ currentSummarizationId = NoId
  /\ stage = [s \in Sends |-> "idle"]
  /\ request = [s \in Sends |-> NoRequest]
  /\ threadId = [s \in Sends |-> NoId]
  /\ apiEndpoint = [s \in Sends |-> 0]
  /\ currentAssistantId = [s \in Sends |-> NoId]
  /\ accumulated = [s \in Sends |-> EmptyAccumulated]
  /\ lastText = NoLastText
  /\ unhandled = ""
  /\ norm = NoNorm
  /\ NoApproval
  /\ NoStatistics
  /\ NoStream

vars ==
  <<clientVars, sendVars, obsVars, normVars, streamVars, selectedScenario, bubbleVars,
    serverVars, statVars>>

\* One response stream being read: the state right after the first send's
\* response arrived (user message shown, isLoading set, readStream started).
InitText ==
  /\ messages = <<Msg(NoId, "user", UserText)>>
  /\ isLoading = TRUE
  /\ toolCalls = [t \in ToolIds |-> NoToolCall]
  /\ interruptData = NoInterrupt
  /\ currentThreadId = "thread-1"
  /\ errors = [k \in AccKeys |-> ""]
  /\ summarizations = <<>>
  /\ messageCount = 1
  /\ summarizationContent = <<>>
  /\ currentSummarizationId = NoId
  /\ stage = [s \in Sends |-> IF s = 1 THEN "reading" ELSE "idle"]
  /\ request = [s \in Sends |-> NoRequest]
  /\ threadId = [s \in Sends |-> IF s = 1 THEN "thread-1" ELSE NoId]
  /\ apiEndpoint = [s \in Sends |-> IF s = 1 THEN 1 ELSE 0]
  /\ currentAssistantId = [s \in Sends |-> IF s = 1 THEN SynthId(1) ELSE NoId]
  /\ accumulated = [s \in Sends |-> EmptyAccumulated]
  /\ lastText = NoLastText
  /\ unhandled = ""
  /\ norm = NoNorm
  /\ NoApproval
  /\ NoStatistics
  /\ NoStream

\* model chunks of one message id, and chunks that carry no id
TextDatas ==
  {PairData(m, Meta("model", FALSE)) : m \in AIChunksOf({"m1", NoId}, Contents, {<<>>})}

NextText ==
  \E data \in TextDatas : processUpdate(1, data)
                           /\ UNCHANGED <<normVars, streamVars, selectedScenario,
                                          bubbleVars, serverVars, statVars>>

SpecText == InitText /\ [][NextText]_vars

\* ------------------------------------------------------------- handleSend
\* the calls of handleSend that issued a request so far
Issued == {s \in Sends : stage[s] # "idle"}

\* `thread-${Date.now()}`: a new id at every call
FreshThreadIds == <<"thread-1", "thread-2", "thread-3", "thread-4">>
FreshThreadId(s) == FreshThreadIds[s]

ThreadIdAlwaysFresh(current, s) == FreshThreadId(s)

\* const threadId = currentThreadId || `thread-${Date.now()}`
ThreadIdFor(current, s) == IF current # NoId THEN current ELSE FreshThreadId(s)

\* The interruptResponse objects: the `decisions` array, each decision the
\* sequence of its <<key, value>> properties.  A property may hold undefined.
Undefined == "undefined"
ApproveResponse == << <<(<<"type", "approve">>)>> >>
RejectResponse(message) ==
  << <<(<<"type", "reject">>)>>
     \o (IF message # Undefined /\ message # ""
         THEN <<(<<"message", message>>)>> ELSE <<>>) >>
EditResponseOriginalArgs(args) ==
  << << <<"type", "edit">>,
        <<"editedAction.name", interruptData.actionRequests[1].name>>,
        <<"editedAction.args", interruptData.actionRequests[1].args>> >> >>

EditResponse(args) ==
  << << <<"type", "edit">>,
        <<"editedAction.name", interruptData.actionRequests[1].name>>,
        <<"editedAction.args", args>> >> >>

\* JSON.stringify leaves out the properties that hold undefined
WithoutUndefined(object) ==
  LET Defined(kv) == kv[2] # Undefined IN SelectSeq(object, Defined)
Stringify(response) == [i \in DOMAIN response |-> WithoutUndefined(response[i])]

\* the scan that decides whether setToolCalls builds a new Map: some call
\* of `owner` has no tool message and is not marked yet
needsUpdate(tcs, owner) ==
  \E t \in ToolIds : /\ tcs[t].present /\ tcs[t].aiMessageId = owner
                     /\ tcs[t].toolMessage = "" /\ ~tcs[t].errored

MarkErroredEveryOwner(tcs, owner) ==
  IF \E t \in ToolIds : tcs[t].present /\ tcs[t].toolMessage = "" /\ ~tcs[t].errored
  THEN [t \in ToolIds |->
          IF tcs[t].present /\ tcs[t].toolMessage = ""
          THEN [tcs[t] EXCEPT !.errored = TRUE] ELSE tcs[t]]
  ELSE tcs

MarkErroredFirst(tcs, owner) ==
  LET pending == {t \in ToolIds : /\ tcs[t].present /\ tcs[t].aiMessageId = owner
                                  /\ tcs[t].toolMessage = "" /\ ~tcs[t].errored}
  IN IF pending = {} THEN tcs
     ELSE [tcs EXCEPT ![CHOOSE t \in pending : TRUE].errored = TRUE]

\* mark as errored every tool call of `owner` that has no tool message
\* (`if (!needsUpdate) return prev`: the same Map is kept)
MarkErrored(tcs, owner) ==
  IF needsUpdate(tcs, owner)
  THEN [t \in ToolIds |->
          IF tcs[t].present /\ tcs[t].aiMessageId = owner /\ tcs[t].toolMessage = ""
          THEN [tcs[t] EXCEPT !.errored = TRUE] ELSE tcs[t]]
  ELSE tcs

\* handleSend(messageOverride, interruptResponse) past its first guard,
\* with `typed` = messageOverride || inputValue and `apiKey` the prop:
\* without a key only a warning is shown; otherwise the user message is
\* appended (not on a resumption), the thread id is fixed and the POST is
\* issued.  currentAssistantId starts as a fresh timestamp id.
SendBody(typed, apiKey, interruptResponse) ==
  LET s == Cardinality(Issued) + 1
      shown == IF interruptResponse = NoResponse /\ typed # <<>>
               THEN Append(messages, Msg(NoId, "user", typed)) ELSE messages
      tid == ThreadIdFor(currentThreadId, s)
  IN
  IF apiKey = ""
  THEN /\ Len(messages) < MaxMessages
       /\ messages' = Append(messages, Msg(NoId, "assistant", KeyWarning))
       /\ UNCHANGED <<toolCalls, currentThreadId, errors, summarizations,
                      messageCount, summarizationContent, currentSummarizationId,
                      isLoading>>
       /\ UNCHANGED <<sendVars, obsVars>>
  ELSE /\ s \in Sends
       /\ Len(shown) <= MaxMessages
       /\ messages' = shown
       /\ messageCount' = IF shown # messages THEN Len(shown) ELSE messageCount
       /\ currentThreadId' = tid
       /\ threadId' = [threadId EXCEPT ![s] = tid]
       /\ apiEndpoint' = [apiEndpoint EXCEPT ![s] = selectedScenario]
       /\ stage' = [stage EXCEPT ![s] = "fetching"]
       /\ request' = [request EXCEPT ![s] =
                        [threadId |-> tid, message |-> typed,
                         interruptResponse |->
                           IF interruptResponse = NoResponse THEN NoResponse
                           ELSE Stringify(interruptResponse)]]
       /\ currentAssistantId' = [currentAssistantId EXCEPT ![s] = SynthId(s)]
       /\ accumulated' = [accumulated EXCEPT ![s] = EmptyAccumulated]
       /\ UNCHANGED <<toolCalls, errors, summarizations, summarizationContent,
                      currentSummarizationId, isLoading>>
       /\ UNCHANGED obsVars

\* the first guard of handleSend: nothing to send, or a stream is loading
SendRefused(typed, interruptResponse) ==
  (typed = <<>> /\ interruptResponse = NoResponse) \/ isLoading

\* the user submits the input box (button or Enter key)
handleSend(typed, apiKey) ==
  /\ ~SendRefused(typed, NoResponse)
  /\ SendBody(typed, apiKey, NoResponse)
  /\ UNCHANGED interruptData

\* handleInterruptApprove / handleInterruptReject / handleInterruptEdit:
\* build the decision, clear the pending interrupt, then call
\* handleSend("", interruptResponse), whose guard may return at once.
handleInterruptDecision(decision, typed, apiKey) ==
  /\ interruptData.present
  /\ interruptData' = NoInterrupt
  /\ IF SendRefused(typed, decision)
     THEN UNCHANGED <<messages, isLoading, toolCalls, currentThreadId, errors,
                      summarizations, messageCount, summarizationContent,
                      currentSummarizationId, sendVars, obsVars>>
     ELSE SendBody(typed, apiKey, decision)

\* ------------------------------------------------------------- InterruptBubble
\* The bubble is mounted while interruptData is set; it renders nothing unless
\* interruptData.action_requests is a non-empty array.
BubbleShown == interruptData.present /\ interruptData.action_requests # <<>>

\* const actionRequest = interruptData.action_requests[0]
actionRequest == interruptData.action_requests[1]

\* review_configs?.find(config => config.actionName === actionRequest.name)
MatchingConfigs ==
  {i \in DOMAIN interruptData.review_configs :
     interruptData.review_configs[i].actionName = actionRequest.name}

allowedDecisionsAll == {"approve", "reject", "edit"}

\* reviewConfig?.allowedDecisions || ["approve", "reject"]
allowedDecisions ==
  IF MatchingConfigs # {}
  THEN interruptData.review_configs[CHOOSE i \in MatchingConfigs :
                                     \A j \in MatchingConfigs : i <= j].allowedDecisions
  ELSE {"approve", "reject"}

\* the bubble leaves the tree when interruptData becomes null: its state is lost
Unmounted ==
  /\ rejectionMessage' = ""
  /\ editingActionIndex' = NoIndex
  /\ editedArgs' = EmptyArgs
  /\ showRejectionInput' = FALSE

\* the third row of buttons: neither editing nor asking for a rejection message
ButtonsShown == BubbleShown /\ editingActionIndex = NoIndex /\ ~showRejectionInput

\* everything but the bubble and the session is left alone
BubbleFrame == UNCHANGED <<normVars, streamVars, selectedScenario, serverVars, statVars>>

\* rejectionMessage.trim() || undefined
Trimmed(message) == IF message \in {"", " "} THEN Undefined ELSE message

\* the Approve button: handleApprove -> onApprove()
BubbleApprove(typed, apiKey) ==
  /\ ButtonsShown
  /\ "approve" \in allowedDecisions
  /\ handleInterruptDecision(ApproveResponse, typed, apiKey)
  /\ Unmounted
  /\ BubbleFrame

\* the Reject button: handleReject with the message input still hidden
BubbleReject ==
  /\ ButtonsShown
  /\ "reject" \in allowedDecisions
  /\ showRejectionInput' = TRUE
  /\ UNCHANGED <<rejectionMessage, editingActionIndex, editedArgs>>
  /\ UNCHANGED <<clientVars, sendVars, obsVars>>
  /\ BubbleFrame

\* typing in the rejection message box
BubbleTypeRejection(text) ==
  /\ BubbleShown /\ showRejectionInput /\ editingActionIndex = NoIndex
  /\ rejectionMessage' = text
  /\ UNCHANGED <<editingActionIndex, editedArgs, showRejectionInput>>
  /\ UNCHANGED <<clientVars, sendVars, obsVars>>
  /\ BubbleFrame

\* the Cancel button of the rejection message box
BubbleRejectCancel ==
  /\ BubbleShown /\ showRejectionInput /\ editingActionIndex = NoIndex
  /\ showRejectionInput' = FALSE
  /\ rejectionMessage' = ""
  /\ UNCHANGED <<editingActionIndex, editedArgs>>
  /\ UNCHANGED <<clientVars, sendVars, obsVars>>
  /\ BubbleFrame

\* the Confirm Reject button: handleRejectConfirm -> onReject(message)
BubbleRejectConfirm(typed, apiKey) ==
  /\ BubbleShown /\ showRejectionInput /\ editingActionIndex = NoIndex
  /\ handleInterruptDecision(RejectResponse(Trimmed(rejectionMessage)), typed, apiKey)
  /\ Unmounted
  /\ BubbleFrame

\* the Edit button: startEditing copies the args of the action request
startEditing ==
  /\ ButtonsShown
  /\ "edit" \in allowedDecisions
  /\ editingActionIndex' = 0
  /\ editedArgs' = actionRequest.args
  /\ showRejectionInput' = FALSE
  /\ UNCHANGED rejectionMessage
  /\ UNCHANGED <<clientVars, sendVars, obsVars>>
  /\ BubbleFrame

\* a textarea of the edit form (one per key of actionRequest.args)
updateEditedArg(value) ==
  /\ BubbleShown /\ editingActionIndex # NoIndex
  /\ actionRequest.args # EmptyArgs
  /\ editedArgs' = value
  /\ UNCHANGED <<rejectionMessage, editingActionIndex, showRejectionInput>>
  /\ UNCHANGED <<clientVars, sendVars, obsVars>>
  /\ BubbleFrame

\* the Cancel Edit button
cancelEditing ==
  /\ BubbleShown /\ editingActionIndex # NoIndex
  /\ editingActionIndex' = NoIndex
  /\ editedArgs' = EmptyArgs
  /\ UNCHANGED <<rejectionMessage, showRejectionInput>>
  /\ UNCHANGED <<clientVars, sendVars, obsVars>>
  /\ BubbleFrame

\* the Save & Approve button: handleEdit -> onEdit(editedArgs)
handleEdit(typed, apiKey) ==
  /\ BubbleShown /\ editingActionIndex # NoIndex
  /\ handleInterruptDecision(EditResponse(editedArgs), typed, apiKey)
  /\ Unmounted
  /\ BubbleFrame

\* A decision taken on a freshly mounted bubble, its clicks taken together:
\* Approve; Reject and Confirm Reject with no message; Edit and Save &
\* Approve with the args as they were.
ResponseOf(decision) ==
  IF decision = "approve" THEN ApproveResponse
  ELSE IF decision = "reject" THEN RejectResponse(Undefined)
  ELSE EditResponse(actionRequest.args)

BubbleDecides(decision, typed, apiKey) ==
  /\ ButtonsShown
  /\ decision \in allowedDecisions
  /\ handleInterruptDecision(ResponseOf(decision), typed, apiKey)

\* the effect that runs when the selectedScenario prop changes: the
\* conversation is reset; streams being read are not stopped
ScenarioChange ==
  /\ selectedScenario' = selectedScenario + 1
  /\ messages' = <<>>
  /\ toolCalls' = [t \in ToolIds |-> NoToolCall]
  /\ interruptData' = NoInterrupt
  /\ currentThreadId' = NoId
  /\ summarizations' = <<>>
  /\ errors' = [k \in AccKeys |-> ""]
  /\ messageCount' = 0
  /\ summarizationContent' = <<>>
  /\ currentSummarizationId' = NoId
  /\ Unmounted
  /\ statistics' = resetStatistics
  /\ processedTokenMessages' = {}
  /\ processedToolCallIds' = {}
  /\ UNCHANGED <<isLoading, sendVars, obsVars, normVars, streamVars, serverVars,
                 statisticsProvider>>

\* the catch block of handleSend (fetch rejected, or !response.ok)
FetchFails(s) ==
  /\ stage[s] = "fetching"
  /\ stage' = [stage EXCEPT ![s] = "failed"]
  /\ isLoading' = FALSE
  /\ errors' = IF currentAssistantId[s] # NoId
               THEN [errors EXCEPT ![currentAssistantId[s]] = "http"] ELSE errors
  /\ toolCalls' = IF currentAssistantId[s] # NoId
                  THEN MarkErrored(toolCalls, currentAssistantId[s]) ELSE toolCalls
  /\ messages' = IF currentAssistantId[s] # NoId THEN messages
                 ELSE Append(messages, Msg(NoId, "assistant", <<"e">>))
  /\ request' = [request EXCEPT ![s] = NoRequest]
  /\ UNCHANGED <<interruptData, currentThreadId, summarizations, messageCount,
                 summarizationContent, currentSummarizationId>>
  /\ UNCHANGED <<threadId, apiEndpoint, currentAssistantId, accumulated, obsVars>>

\* the response arrived with an ok status: setIsLoading(true); readStream(...)
FetchSucceeds(s) ==
  /\ stage[s] = "fetching"
  /\ stage' = [stage EXCEPT ![s] = "reading"]
  /\ isLoading' = TRUE
  /\ request' = [request EXCEPT ![s] = NoRequest]
  /\ UNCHANGED <<messages, toolCalls, interruptData, currentThreadId, errors,
                 summarizations, messageCount, summarizationContent,
                 currentSummarizationId>>
  /\ UNCHANGED <<threadId, apiEndpoint, currentAssistantId, accumulated, obsVars>>

\* ------------------------------------------------------------- stream callbacks
\* the tool calls of the first message that carries any (flat or kwargs)
RECURSIVE FirstToolCalls(_)
FirstToolCalls(msgs) ==
  IF msgs = <<>> THEN <<>>
  ELSE IF ToolCallsOf(Head(msgs)) # <<>> THEN ToolCallsOf(Head(msgs))
  ELSE FirstToolCalls(Tail(msgs))

\* updateToolCallArgs reads modelRequest.model_request.messages without a
\* guard: a payload that has no model_request makes it throw a TypeError
ModelRequestThrows(data) == data.dk # "model_request"

\* updateToolCallArgs: every entry whose id is among the final tool calls
\* takes the final descriptor
updateToolCallArgsResetting(tcs, data) ==
  LET tc == FirstToolCalls(data.messages) IN
  [t \in ToolIds |->
     IF tcs[t].present /\ \E i \in DOMAIN tc : tc[i].id = t
     THEN LET final == tc[CHOOSE i \in DOMAIN tc :
                            tc[i].id = t /\ \A j \in 1..(i - 1) : tc[j].id # t]
          IN [tcs[t] EXCEPT !.name = final.name, !.args = final.args,
                            !.toolMessage = "", !.errored = FALSE]
     ELSE tcs[t]]

updateToolCallArgs(tcs, data) ==
  LET tc == FirstToolCalls(data.messages) IN
  [t \in ToolIds |->
     IF tcs[t].present /\ \E i \in DOMAIN tc : tc[i].id = t
     THEN LET final == tc[CHOOSE i \in DOMAIN tc :
                            tc[i].id = t /\ \A j \in 1..(i - 1) : tc[j].id # t]
          IN [tcs[t] EXCEPT !.name = final.name, !.args = final.args]
     ELSE tcs[t]]

\* for (const toolMsg of data.tools?.messages || []) updateToolCallWithMessage(toolMsg)
RECURSIVE WithToolMessages(_, _, _)
WithToolMessages(tcs, toolMsgs, owner) ==
  IF toolMsgs = <<>> THEN tcs
  ELSE WithToolMessages(WithToolMessage(tcs, Head(toolMsgs), owner),
                        Tail(toolMsgs), owner)

\* the tools callback
OnTools(s, data) ==
  /\ stage[s] = "reading"
  /\ toolCalls' = WithToolMessages(toolCalls,
                                   IF data.dk = "tools" THEN data.messages ELSE <<>>,
                                   currentAssistantId[s])
  /\ UNCHANGED <<messages, isLoading, interruptData, currentThreadId, errors,
                 summarizations, messageCount, summarizationContent,
                 currentSummarizationId>>
  /\ UNCHANGED <<sendVars, obsVars>>

\* the model_request callback.  An exception thrown by a callback leaves
\* readStream's loop; readStream is not awaited and has no catch, so its
\* promise rejects unhandled and neither end nor error is called.
OnModelRequest(s, data) ==
  /\ stage[s] = "reading"
  /\ IF ModelRequestThrows(data)
     THEN /\ stage' = [stage EXCEPT ![s] = "thrown"]
          /\ unhandled' = "TypeError"
          /\ UNCHANGED <<clientVars, request, threadId, apiEndpoint, currentAssistantId, accumulated, lastText>>
     ELSE /\ toolCalls' = updateToolCallArgs(toolCalls, data)
          /\ UNCHANGED <<messages, isLoading, interruptData, currentThreadId, errors,
                         summarizations, messageCount, summarizationContent,
                         currentSummarizationId>>
          /\ UNCHANGED <<sendVars, obsVars>>

OnInterruptUnchecked(s, data) ==
  /\ stage[s] = "reading"
  /\ interruptData' = IF data.present THEN data ELSE interruptData
  /\ UNCHANGED <<messages, isLoading, toolCalls, currentThreadId, errors,
                 summarizations, messageCount, summarizationContent,
                 currentSummarizationId>>
  /\ UNCHANGED <<sendVars, obsVars>>

\* the interrupt callback: only a request with at least one action is shown
OnInterrupt(s, data) ==
  /\ stage[s] = "reading"
  /\ interruptData' = IF data.present /\ data.actionRequests # <<>>
                      THEN data ELSE interruptData
  /\ UNCHANGED <<messages, isLoading, toolCalls, currentThreadId, errors,
                 summarizations, messageCount, summarizationContent,
                 currentSummarizationId>>
  /\ UNCHANGED <<sendVars, obsVars>>

\* setSummarizations(prev => prev.map(s => s.id === currentSummarizationIdRef.current
\* ? {...s, isStreaming: false} : s)): the updater reads the ref when React
\* runs it, `ref` being the value the ref holds at that moment
FinalizedSummarizations(summs, ref) ==
  [i \in DOMAIN summs |->
     IF summs[i].id = ref THEN [summs[i] EXCEPT !.isStreaming = FALSE] ELSE summs[i]]

\* the end callback of send s: loading stops, every message takes the text
\* accumulated for its id, the streaming summarization is completed.  The
\* callback queues the summarization updater and sets the ref to null in the
\* next statement: the updater finds the ref as it was (React ran it at
\* once) or null (React ran it in the render that follows), and then it
\* matches no summarization.
EndCallback(s) ==
  /\ isLoading' = FALSE
  /\ messages' =
       [i \in DOMAIN messages |->
          LET id == messages[i].id
              msgAccumulated == IF id \in AccKeys THEN accumulated[s][id] ELSE <<>>
          IN IF msgAccumulated # <<>> /\ msgAccumulated # messages[i].content
             THEN Msg(id, "assistant", msgAccumulated) ELSE messages[i]]
  /\ \E refAtUpdate \in {currentSummarizationId, NoId} :
       summarizations' =
         IF currentSummarizationId # NoId
         THEN FinalizedSummarizations(summarizations, refAtUpdate)
         ELSE summarizations
  /\ currentSummarizationId' = NoId
  /\ summarizationContent' =
       IF currentSummarizationId # NoId THEN <<>> ELSE summarizationContent
  /\ UNCHANGED <<toolCalls, interruptData, currentThreadId, errors, messageCount>>
  /\ UNCHANGED <<request, threadId, apiEndpoint, currentAssistantId, accumulated, obsVars>>

\* an explicit end frame: the end callback runs and the loop goes on reading
OnEndFrame(s) ==
  /\ stage[s] = "reading"
  /\ EndCallback(s)
  /\ UNCHANGED stage

\* reader.read() returned done: the end callback runs and the loop is left
StreamClose(s) ==
  /\ stage[s] = "reading"
  /\ EndCallback(s)
  /\ stage' = [stage EXCEPT ![s] = "closed"]

\* the error callback (an error frame, or a data line that is not JSON):
\* loading stops, the error is stored under currentAssistantId, the pending
\* tool calls of that id are marked; the loop goes on reading
OnError(s, errorMessage) ==
  /\ stage[s] = "reading"
  /\ isLoading' = FALSE
  /\ errors' = IF currentAssistantId[s] # NoId
               THEN [errors EXCEPT ![currentAssistantId[s]] = errorMessage] ELSE errors
  /\ toolCalls' = MarkErrored(toolCalls, currentAssistantId[s])
  /\ UNCHANGED <<messages, interruptData, currentThreadId, summarizations,
                 messageCount, summarizationContent, currentSummarizationId>>
  /\ UNCHANGED <<sendVars, obsVars>>

\* reader.read() rejects (the connection breaks while the body is read):
\* the rejection leaves readStream, which nothing awaits or catches
ReadRejects(s) ==
  /\ stage[s] = "reading"
  /\ stage' = [stage EXCEPT ![s] = "rejected"]
  /\ unhandled' = "read failed"
  /\ UNCHANGED <<clientVars, request, threadId, apiEndpoint, currentAssistantId, accumulated, lastText>>

\* ------------------------------------------------------------- the session
\* what the user may have typed, and the api key prop
TypedTexts == {<<>>, UserText}
ApiKeys == {"", "sk"}
Decisions == {"approve", "reject", "edit"}

\* events of a session: one streamed message with one tool call
SessionToolCall == ToolCallRec("t1", "send_email", "partial")
SessionUpdates ==
  {PairData(FlatAI("m1", StrContent(<<"a">>), <<SessionToolCall>>), Meta("model", FALSE))}
SessionTools == {ToolsData(<<FlatTool("t1", "send_email", "success")>>)}
SessionModelRequests ==
  {ModelRequestData(<<FlatAI("m1", NoContent,
                             <<ToolCallRec("t1", "send_email", "final")>>)>>),
   OtherData}
SendEmail == ActionRequest("send_email", "orig")
SessionInterrupts ==
  {InterruptObject(<<SendEmail>>, <<ReviewConfig("send_email", allowedDecisionsAll)>>,
                   <<SendEmail>>, <<ReviewConfig("send_email", allowedDecisionsAll)>>),
   HITLRequest(<<>>, <<>>)}
ErrorMessages == {"http", "frame"}

\* the normalizer and readStream locals are not in use
OtherLocalsUnchanged ==
  UNCHANGED <<normVars, streamVars, selectedScenario, bubbleVars, serverVars, statVars>>

Next ==
  \/ \E typed \in TypedTexts, apiKey \in ApiKeys :
       handleSend(typed, apiKey) /\ OtherLocalsUnchanged
  \/ \E decision \in Decisions, typed \in TypedTexts, apiKey \in ApiKeys :
       BubbleDecides(decision, typed, apiKey) /\ OtherLocalsUnchanged
  \/ \E s \in Sends : FetchFails(s) /\ OtherLocalsUnchanged
  \/ \E s \in Sends : FetchSucceeds(s) /\ OtherLocalsUnchanged
  \/ \E s \in Sends, data \in SessionUpdates :
       processUpdate(s, data) /\ OtherLocalsUnchanged
  \/ \E s \in Sends, data \in SessionTools : OnTools(s, data) /\ OtherLocalsUnchanged
  \/ \E s \in Sends, data \in SessionModelRequests :
       OnModelRequest(s, data) /\ OtherLocalsUnchanged
  \/ \E s \in Sends, data \in SessionInterrupts :
       OnInterrupt(s, data) /\ OtherLocalsUnchanged
  \/ \E s \in Sends : OnEndFrame(s) /\ OtherLocalsUnchanged
  \/ \E s \in Sends, e \in ErrorMessages \ {"http"} :
       OnError(s, e) /\ OtherLocalsUnchanged
  \/ \E s \in Sends : StreamClose(s) /\ OtherLocalsUnchanged
  \/ \E s \in Sends : ReadRejects(s) /\ OtherLocalsUnchanged

Spec == Init /\ [][Next]_vars

\* ------------------------------------------------------------- approval
\* Interrupts, the bubble and the resumption requests.  The interrupt objects
\* that may arrive: with both spellings of the keys and a review config that
\* allows everything or only approve and reject, with no review config, as
\* transformLangGraphEvent builds them (camelCase only), and as the routes
\* build them (snake_case only).
ReviewAll == ReviewConfig("send_email", allowedDecisionsAll)
ReviewNoEdit == ReviewConfig("send_email", {"approve", "reject"})
ApprovalInterrupts ==
  {InterruptObject(<<SendEmail>>, <<rc>>, <<SendEmail>>, <<rc>>) :
     rc \in {ReviewAll, ReviewNoEdit}}
  \cup {InterruptObject(<<SendEmail>>, <<>>, <<SendEmail>>, <<>>),
        HITLRequest(<<SendEmail>>, <<ReviewAll>>),
        InterruptObject(<<>>, <<>>, <<SendEmail>>, <<ReviewAll>>)}

\* the update events of these sessions: the result of the tool, as a
\* [ToolMessage, metadata] pair
ApprovalUpdates ==
  {PairData(FlatTool("t1", "send_email", "success"), Meta("tools", FALSE))}

RejectionMessages == {"", " ", "no"}
EditedArgs == {"edited"}

NextApproval ==
  \/ handleSend(UserText, "sk") /\ OtherLocalsUnchanged
  \/ \E s \in Sends : FetchSucceeds(s) /\ OtherLocalsUnchanged
  \/ \E s \in Sends, data \in ApprovalInterrupts :
       OnInterrupt(s, data) /\ OtherLocalsUnchanged
  \/ \E s \in Sends, data \in ApprovalUpdates :
       processUpdate(s, data) /\ OtherLocalsUnchanged
  \/ \E s \in Sends, data \in SessionTools : OnTools(s, data) /\ OtherLocalsUnchanged
  \/ \E s \in Sends, data \in SessionModelRequests \ {OtherData} :
       OnModelRequest(s, data) /\ OtherLocalsUnchanged
  \/ \E s \in Sends : OnError(s, "frame") /\ OtherLocalsUnchanged
  \/ \E s \in Sends : OnEndFrame(s) /\ OtherLocalsUnchanged
  \/ BubbleApprove(<<>>, "sk")
  \/ BubbleReject
  \/ \E text \in RejectionMessages : BubbleTypeRejection(text)
  \/ BubbleRejectCancel
  \/ BubbleRejectConfirm(<<>>, "sk")
  \/ startEditing
  \/ \E value \in EditedArgs : updateEditedArg(value)
  \/ cancelEditing
  \/ handleEdit(<<>>, "sk")
  \/ selectedScenario < MaxScenarios /\ ScenarioChange

SpecApproval == Init /\ [][NextApproval]_vars

\* ------------------------------------------------------------- POST /api/hitl
\* What JSON.parse gives for the text of an interruptResponse: null, or an
\* object with some of the keys action, tool, args, message, decisions
\* ("" = key absent; hasDecisions tells whether `decisions` is there).
JsonNull ==
  [isNull |-> TRUE, action |-> "", tool |-> "", args |-> "", message |-> "",
   hasDecisions |-> FALSE, decisions |-> <<>>]
JsonObject(action, tool, args, message, hasDecisions, decisions) ==
  [isNull |-> FALSE, action |-> action, tool |-> tool, args |-> args,
   message |-> message, hasDecisions |-> hasDecisions, decisions |-> decisions]
DecisionsObject(decisions) == JsonObject("", "", "", "", TRUE, decisions)
LegacyObject(action, tool, args, message) ==
  JsonObject(action, tool, args, message, FALSE, <<>>)
EmptyJsonObject == JsonObject("", "", "", "", FALSE, <<>>)

\* The interruptResponse of a request body: absent, a string (empty, not
\* JSON, or the JSON text of a value), or an object sent as such.
NoInterruptResponse == [form |-> "absent", valid |-> FALSE, parsed |-> JsonNull]
EmptyString == [form |-> "empty", valid |-> FALSE, parsed |-> JsonNull]
NotJson == [form |-> "string", valid |-> FALSE, parsed |-> JsonNull]
JsonText(value) == [form |-> "string", valid |-> TRUE, parsed |-> value]
AsObject(value) == [form |-> "object", valid |-> TRUE, parsed |-> value]

\* if (interruptResponse): "" and undefined are falsy
Truthy(interruptResponse) == interruptResponse.form \in {"string", "object"}

\* the decisions built from the legacy format {action, tool, args, message}
LegacyDecisions(parsed) ==
  << <<(<<"type", IF parsed.action = "accept" THEN "approve" ELSE parsed.action>>)>>
     \o (IF parsed.action = "edit" /\ parsed.args # ""
         THEN << <<"editedAction.name",
                   IF parsed.tool # "" THEN parsed.tool ELSE "send_email">>,
                 <<"editedAction.args", parsed.args>> >>
         ELSE <<>>)
     \o (IF parsed.action = "reject" /\ parsed.message # ""
         THEN <<(<<"message", parsed.message>>)>> ELSE <<>>) >>

\* interruptResponseObj of POST: [defined, decisions].  JSON.parse throws on
\* text that is not JSON and `parsed.action` throws on null; the catch block
\* ignores both.  An empty decisions array is truthy.
NoResponseObj == [defined |-> FALSE, decisions |-> <<>>]
InterruptResponseObj(interruptResponse) ==
  IF ~Truthy(interruptResponse) THEN NoResponseObj
  ELSE IF ~interruptResponse.valid THEN NoResponseObj
  ELSE LET parsed == interruptResponse.parsed IN
       IF parsed.isNull THEN NoResponseObj
       ELSE IF parsed.action # ""
            THEN [defined |-> TRUE, decisions |-> LegacyDecisions(parsed)]
       ELSE IF parsed.hasDecisions
            THEN [defined |-> TRUE, decisions |-> parsed.decisions]
       ELSE NoResponseObj

\* hitlAgent: a Command that resumes with the decisions when an
\* interruptResponse is passed, otherwise a new HumanMessage(message)
hitlAgent(message, tid, interruptResponseObj) ==
  IF interruptResponseObj.defined
  THEN [set |-> TRUE, status |-> 200, run |-> "resume",
        decisions |-> interruptResponseObj.decisions, human |-> "",
        thread |-> tid]
  ELSE [set |-> TRUE, status |-> 200, run |-> "fresh", decisions |-> <<>>,
        human |-> message, thread |-> tid]

Refused(status) ==
  [set |-> TRUE, status |-> status, run |-> "none", decisions |-> <<>>, human |-> "",
   thread |-> NoId]

\* the POST handler of the HITL route on the body it was sent
POST ==
  /\ postBody.set /\ ~postOutcome.set
  /\ postOutcome' =
       IF ~Truthy(postBody.interruptResponse) /\ postBody.message = "" THEN Refused(400)
       ELSE IF postBody.apiKey = "" THEN Refused(400)
       ELSE hitlAgent(postBody.message, postBody.threadId,
                      InterruptResponseObj(postBody.interruptResponse))
  /\ UNCHANGED <<postBody, agentStream, yielded, enqueued, controller>>
  /\ UNCHANGED <<clientVars, sendVars, obsVars, normVars, streamVars,
                 selectedScenario, bubbleVars, statVars>>

\* the bodies: what the client's handlers send for the three decisions, the
\* legacy format, and interruptResponse values that are no decisions
ClientDecisions ==
  {<< <<(<<"type", "approve">>)>> >>,
   << <<(<<"type", "reject">>)>> >>,
   << << <<"type", "reject">>, <<"message", "no">> >> >>,
   << << <<"type", "edit">>, <<"editedAction.name", "send_email">>,
         <<"editedAction.args", "edited">> >> >>}
InterruptResponses ==
  {NoInterruptResponse, EmptyString, NotJson, JsonText(JsonNull),
   JsonText(EmptyJsonObject)}
  \cup {JsonText(DecisionsObject(d)) : d \in ClientDecisions \cup {<<>>}}
  \cup {AsObject(DecisionsObject(d)) : d \in ClientDecisions}
  \cup {JsonText(LegacyObject(a, "", args, "")) :
          a \in {"accept", "edit"}, args \in {"", "edited"}}
  \cup {JsonText(LegacyObject("reject", "", "", m)) : m \in {"", "no"}}
  \cup {JsonText(LegacyObject("edit", "write_email", "edited", ""))}
Bodies ==
  {[set |-> TRUE, message |-> m, apiKey |-> k, threadId |-> t, interruptResponse |-> ir] :
     m \in {"", "hi"}, k \in {"", "sk"}, t \in {"thread-1"}, ir \in InterruptResponses}

InitServer ==
  /\ messages = <<>>
  /\ isLoading = FALSE
  /\ toolCalls = [t \in ToolIds |-> NoToolCall]
  /\ interruptData = NoInterrupt
  /\ currentThreadId = NoId
  /\ errors = [k \in AccKeys |-> ""]
  /\ summarizations = <<>>
  /\ messageCount = 0
  /\ summarizationContent = <<>>
  /\ currentSummarizationId = NoId
  /\ stage = [s \in Sends |-> "idle"]
  /\ request = [s \in Sends |-> NoRequest]
  /\ threadId = [s \in Sends |-> NoId]
  /\ apiEndpoint = [s \in Sends |-> 0]
  /\ currentAssistantId = [s \in Sends |-> NoId]
  /\ accumulated = [s \in Sends |-> EmptyAccumulated]
  /\ lastText = NoLastText
  /\ unhandled = ""
  /\ norm = NoNorm
  /\ NoStream
  /\ selectedScenario = 1
  /\ NoBubble
  /\ NoStatistics
  /\ postBody \in Bodies
  /\ postOutcome = [set |-> FALSE]
  /\ NoStreamResponse

NextServer == POST

SpecServer == InitServer /\ [][NextServer]_vars

\* ------------------------------------------------------------- event normalizer
\* the stream's own labels
EVENT_TYPES ==
  {"update", "tools", "model_request", "agent_state", "agent", "interrupt",
   "end", "error"}

\* Further payload shapes: the array [{value: {actionRequests, reviewConfigs}}]
\* of an interrupt, the object {__interrupt__: [{value: ...}]}, and the
\* object {message, error} of an error frame.  value.present = FALSE stands
\* for a value without actionRequests.
InterruptArrayData(value) == [dk |-> "interruptArray", value |-> value]
InterruptObjectData(value) == [dk |-> "interruptObject", value |-> value]
ErrorData(message, error) == [dk |-> "error", message |-> message, error |-> error]
AgentData(msgs) == [dk |-> "agent", messages |-> msgs]

\* Array.isArray(payload)
IsArray(payload) == payload.dk \in {"pair", "interruptArray"}

\* the filter of the "messages" branch for arrays that are not
\* [message, metadata]: type "ai", or a serialized AIMessageChunk / AIMessage
IsAIMessageLike(msg) ==
  \/ msg.type = "ai"
  \/ msg.lc = 1 /\ msg.idTag \in {"AIMessageChunk", "AIMessage"}

determineEventTypeFromPayload(payload) ==
  IF payload.dk = "null" THEN "update"
  ELSE IF payload.dk = "agent_state" THEN "agent_state"
  ELSE IF payload.dk = "model_request" THEN "model_request"
  ELSE IF payload.dk = "tools" THEN "tools"
  ELSE IF payload.dk = "pair" /\ payload.msg.lc = 1 /\ payload.meta.node # ""
       THEN "model_request"
  ELSE "update"

\* the interrupt handed to the callback: the action requests when the value
\* has them, otherwise the raw value (which has no actionRequests array)
InterruptEvent(value) ==
  [eventType |-> "interrupt",
   eventData |-> IF value.present
                 THEN HITLRequest(value.actionRequests, value.reviewConfigs)
                 ELSE NoInterrupt]

transformLangGraphEvent(langGraphEventType, payload) ==
  LET asUpdate == [eventType |-> "update", eventData |-> payload]
      sniffed == [eventType |-> determineEventTypeFromPayload(payload),
                  eventData |-> payload]
  IN
  IF langGraphEventType = "interrupt"
  THEN IF payload.dk = "interruptArray" THEN InterruptEvent(payload.value)
       ELSE [eventType |-> "interrupt", eventData |-> payload]
  ELSE IF langGraphEventType \in {"values", "updates"} /\ payload.dk # "null"
  THEN IF payload.dk = "interruptObject" THEN InterruptEvent(payload.value)
       ELSE sniffed
  ELSE IF langGraphEventType = "messages" /\ IsArray(payload)
  THEN IF payload.dk = "pair"
       THEN IF payload.meta.node # ""
            THEN IF payload.msg.type \in {"ai", "tool"} THEN asUpdate
                 ELSE IF payload.msg.lc = 1
                      THEN [eventType |-> "model_request",
                            eventData |-> ModelRequestData(<<payload.msg>>)]
                 ELSE asUpdate
            ELSE IF IsAIMessageLike(payload.msg)
                 THEN [eventType |-> "agent", eventData |-> AgentData(<<payload.msg>>)]
                 ELSE asUpdate
       ELSE asUpdate
  ELSE IF payload.dk # "null" THEN sniffed
  ELSE asUpdate

\* the event readStream hands to handleEvent for a frame (label, payload):
\* a label of the stream's own is passed through, any other is transformed
EventOf(label, payload) ==
  IF label \in EVENT_TYPES
  THEN [eventType |-> label, eventData |-> payload]
  ELSE transformLangGraphEvent(label, payload)

\* What the callbacks read from the event of a frame: for an update carrying
\* [AIMessageChunk, metadata] the chunk's text, id and tool calls
\* (processUpdate); for a model_request the tool calls updateToolCallArgs
\* takes (or its exception); nothing for the other kinds.
Downstream(label, payload) ==
  LET ev == EventOf(label, payload)
      data == ev.eventData
  IN
  IF ev.eventType = "update" /\ data.dk = "pair" /\ isAIMessageChunk(data.msg)
  THEN [kind |-> "update", thrown |-> FALSE,
        content |-> extractIncrementalTextFromChunk(data.msg),
        id |-> MsgIdOf(data.msg), toolCalls |-> ToolCallsOf(data.msg)]
  ELSE IF ev.eventType = "model_request"
  THEN [kind |-> "model_request", thrown |-> ModelRequestThrows(data),
        content |-> NullText, id |-> NoId,
        toolCalls |-> IF ModelRequestThrows(data) THEN <<>>
                      ELSE FirstToolCalls(data.messages)]
  ELSE [kind |-> ev.eventType, thrown |-> FALSE,
        content |-> NullText, id |-> NoId, toolCalls |-> <<>>]

\* labels that are not the stream's own
UpstreamLabels == {"messages", "updates", "custom"}

\* one logical assistant delta (id, content, tool calls) with its metadata
\* arrives under a label, once in the flat and once in the legacy shape
Normalize(label, mid, content, tcs, meta) ==
  /\ ~norm.set
  /\ norm' = [set |-> TRUE, label |-> label, meta |-> meta,
              flat |-> Downstream(label, PairData(FlatAI(mid, content, tcs), meta)),
              legacy |-> Downstream(label, PairData(LegacyAI(mid, content, tcs), meta))]
  /\ UNCHANGED <<clientVars, sendVars, obsVars, streamVars, selectedScenario, bubbleVars,
               serverVars, statVars>>

NextNorm ==
  \E label \in UpstreamLabels \cup {"update"}, mid \in UpstreamIds \cup {NoId},
     content \in Contents, tcs \in SightedCalls, meta \in Metas :
    Normalize(label, mid, content, tcs, meta)

SpecNorm == Init /\ [][NextNorm]_vars

\* ------------------------------------------------------------- readStream
\* A frame of the body: an optional `event: <label>` line (label NoLabel:
\* no such line), a `data: ` line (data NullData with bad = TRUE: text that
\* is not JSON) and, in the newer variant, a blank line (blank = TRUE).
Frame(label, data, bad, blank) ==
  [label |-> label, data |-> data, bad |-> bad, blank |-> blank]

EventLine(label) == [lk |-> "event", label |-> label, data |-> NullData]
DataLine(data) == [lk |-> "data", label |-> NoLabel, data |-> data]
BadDataLine == [lk |-> "baddata", label |-> NoLabel, data |-> NullData]
BlankLine == [lk |-> "blank", label |-> NoLabel, data |-> NullData]

\* the lines of a frame, each ended by "\n"
LinesOfFrame(f) ==
  (IF f.label # NoLabel THEN <<EventLine(f.label)>> ELSE <<>>)
  \o <<IF f.bad THEN BadDataLine ELSE DataLine(f.data)>>
  \o (IF f.blank THEN <<BlankLine>> ELSE <<>>)

RECURSIVE LinesOf(_)
LinesOf(frames) ==
  IF frames = <<>> THEN <<>>
  ELSE LinesOfFrame(Head(frames)) \o LinesOf(Tail(frames))

\* a line that starts with neither "event: " nor "data: " (such as a piece
\* of a line)
OtherLine == [lk |-> "other", label |-> NoLabel, data |-> NullData]

\* The text of the body as the decoder delivers it: every non-empty line is
\* two pieces of text followed by "\n" (NL), an empty line is "\n" alone.
\* A network read may end after any piece.
NL == [tk |-> "nl", line |-> BlankLine, half |-> 0]
Piece(line, half) == [tk |-> "piece", line |-> line, half |-> half]

TextOfLine(line) ==
  IF line.lk = "blank" THEN <<NL>> ELSE <<Piece(line, 1), Piece(line, 2), NL>>

RECURSIVE TextOf(_)
TextOf(lines) ==
  IF lines = <<>> THEN <<>> ELSE TextOfLine(Head(lines)) \o TextOf(Tail(lines))

\* the line a text between two "\n" is
ParseLine(text) ==
  IF text = <<>> THEN BlankLine
  ELSE IF /\ Len(text) = 2
          /\ text[1].half = 1 /\ text[2].half = 2
          /\ text[1].line = text[2].line
       THEN text[1].line
  ELSE OtherLine

\* position of the last "\n" of a text (0: none)
LastNL(text) ==
  IF \E i \in DOMAIN text : text[i] = NL
  THEN CHOOSE i \in DOMAIN text : text[i] = NL /\ \A j \in (i + 1)..Len(text) : text[j] # NL
  ELSE 0

\* const lines = buffer.split("\n"); buffer = lines.pop() || "": the text
\* after the last "\n" stays in the buffer
RestDropped(text) == <<>>

RestOf(text) == SubSeq(text, LastNL(text) + 1, Len(text))

\* the lines before the last "\n", parsed
RECURSIVE SplitLines(_, _)
SplitLines(text, line) ==
  IF text = <<>> THEN <<>>
  ELSE IF Head(text) = NL THEN <<ParseLine(line)>> \o SplitLines(Tail(text), <<>>)
  ELSE SplitLines(Tail(text), Append(line, Head(text)))

\* a callback invocation: which callback, with what, from where in readStream
\* ("line": the blank-line dispatch or the data-line catch, "done": the done
\* branch, "after": the code after the loop)
Call(kind, data, site) == [kind |-> kind, data |-> data, site |-> site]

\* errorData.message || errorData.error || "Unknown error occurred"
ErrorMessageOf(eventData) ==
  IF eventData.dk = "error" /\ eventData.message # "" THEN eventData.message
  ELSE IF eventData.dk = "error" /\ eventData.error # "" THEN eventData.error
  ELSE "Unknown error occurred"

\* the locals of the loop, with the callback log and whether a callback threw
Locals(eventType, data, log, thrown) ==
  [currentEventType |-> eventType, currentData |-> data, dispatched |-> log,
   thrown |-> thrown]

\* handleEvent(eventType, eventData) with the callbacks handleSend passes:
\* there is no agent callback, and the model_request callback throws on a
\* payload without model_request
handleEvent(st, eventType, eventData, site) ==
  IF eventType = "agent" THEN st
  ELSE IF eventType = "error"
  THEN [st EXCEPT !.dispatched =
          Append(@, Call("error", ErrorData(ErrorMessageOf(eventData), ""), site))]
  ELSE IF eventType = "end"
  THEN [st EXCEPT !.dispatched = Append(@, Call("end", NullData, site))]
  ELSE [st EXCEPT !.dispatched = Append(@, Call(eventType, eventData, site)),
                  !.thrown = eventType = "model_request" /\ ModelRequestThrows(eventData)]

\* the pending event is transformed (the locals take the result) and handled
DispatchPending(st, site) ==
  LET ev == EventOf(st.currentEventType, st.currentData)
  IN handleEvent([st EXCEPT !.currentEventType = ev.eventType,
                            !.currentData = ev.eventData],
                 ev.eventType, ev.eventData, site)

HasPending(st) == st.currentEventType # NoLabel /\ st.currentData # NullData

\* the body of `for (const line of lines)`
ProcessLine(st, line) ==
  IF line.lk = "blank"
  THEN IF HasPending(st)
       THEN LET handled == DispatchPending(st, "line") IN
            IF handled.thrown THEN handled
            ELSE [handled EXCEPT !.currentEventType = NoLabel, !.currentData = NullData]
       ELSE st
  ELSE IF line.lk = "event" THEN [st EXCEPT !.currentEventType = line.label]
  ELSE IF line.lk = "data" THEN [st EXCEPT !.currentData = line.data]
  ELSE IF line.lk = "baddata"
  THEN [st EXCEPT !.dispatched =
          Append(@, Call("error", ErrorData("parse", ""), "line"))]
  ELSE st

RECURSIVE ProcessLines(_, _)
ProcessLines(st, lines) ==
  IF lines = <<>> \/ st.thrown THEN st
  ELSE ProcessLines(ProcessLine(st, Head(lines)), Tail(lines))

\* the done branch and the code after the loop: the pending event is
\* handled, the end callback is called, and the pending event, which the
\* done branch does not reset, is handled once more
Finish(st) ==
  LET flushed == IF HasPending(st) THEN DispatchPending(st, "done") ELSE st
      ended == [flushed EXCEPT !.dispatched = Append(@, Call("end", NullData, "done"))]
      again == IF HasPending(ended) THEN DispatchPending(ended, "after") ELSE ended
  IN IF flushed.thrown THEN flushed ELSE again

\* reader.read() returns a chunk of k pieces of text: it is appended to the
\* buffer, the complete lines are processed in order and the text after the
\* last "\n" stays in the buffer
Read(k) ==
  LET body == TextOf(LinesOf(wire))
      text == buffer \o SubSeq(body, arrived + 1, arrived + k)
      st == ProcessLines(Locals(currentEventType, currentData, dispatched, FALSE),
                         SplitLines(text, <<>>))
  IN
  /\ reader = "reading"
  /\ ~closed
  /\ k >= 1
  /\ arrived + k <= Len(body)
  /\ arrived' = arrived + k
  /\ buffer' = RestOf(text)
  /\ currentEventType' = st.currentEventType
  /\ currentData' = st.currentData
  /\ dispatched' = st.dispatched
  /\ reader' = IF st.thrown THEN "thrown" ELSE "reading"
  /\ UNCHANGED <<wire, closed>>
  /\ UNCHANGED <<clientVars, sendVars, obsVars, normVars, selectedScenario, bubbleVars,
               serverVars, statVars>>

\* the body has been delivered and the stream closes: reader.read() returns
\* done, unless the loop was left by an exception and nothing reads any more
Close ==
  LET st == Finish(Locals(currentEventType, currentData, dispatched, FALSE))
  IN
  /\ reader \in {"reading", "thrown"}
  /\ ~closed
  /\ reader = "reading" => arrived = Len(TextOf(LinesOf(wire)))
  /\ closed' = TRUE
  /\ IF reader = "reading"
     THEN /\ currentEventType' = st.currentEventType
          /\ currentData' = st.currentData
          /\ dispatched' = st.dispatched
          /\ reader' = IF st.thrown THEN "thrown" ELSE "done"
     ELSE UNCHANGED <<currentEventType, currentData, dispatched, reader>>
  /\ UNCHANGED <<wire, arrived, buffer>>
  /\ UNCHANGED <<clientVars, sendVars, obsVars, normVars, selectedScenario, bubbleVars,
               serverVars, statVars>>

\* the frames a body is made of
EmptyObject == OtherData
WireLabels == {NoLabel, "update", "model_request", "end"}
Frames ==
  {Frame(l, EmptyObject, FALSE, b) : l \in WireLabels, b \in BOOLEAN}
  \cup {Frame(l, NullData, TRUE, b) : l \in WireLabels, b \in BOOLEAN}

RECURSIVE WiresOfLen(_)
WiresOfLen(n) ==
  IF n = 0 THEN {<<>>}
  ELSE {Append(w, f) : w \in WiresOfLen(n - 1), f \in Frames}

InitStream ==
  /\ messages = <<>>
  /\ isLoading = FALSE
  /\ toolCalls = [t \in ToolIds |-> NoToolCall]
  /\ interruptData = NoInterrupt
  /\ currentThreadId = NoId
  /\ errors = [k \in AccKeys |-> ""]
  /\ summarizations = <<>>
  /\ messageCount = 0
  /\ summarizationContent = <<>>
  /\ currentSummarizationId = NoId
  /\ stage = [s \in Sends |-> "idle"]
  /\ request = [s \in Sends |-> NoRequest]
  /\ threadId = [s \in Sends |-> NoId]
  /\ apiEndpoint = [s \in Sends |-> 0]
  /\ currentAssistantId = [s \in Sends |-> NoId]
  /\ accumulated = [s \in Sends |-> EmptyAccumulated]
  /\ lastText = NoLastText
  /\ unhandled = ""
  /\ norm = NoNorm
  /\ NoApproval
  /\ NoStatistics
  /\ wire \in UNION {WiresOfLen(n) : n \in 0..MaxFrames}
  /\ arrived = 0
  /\ buffer = <<>>
  /\ currentEventType = NoLabel
  /\ currentData = NullData
  /\ dispatched = <<>>
  /\ reader = "reading"
  /\ closed = FALSE

NextStream ==
  \/ \E k \in 1..(7 * MaxFrames) : Read(k)
  \/ Close

SpecStream == InitStream /\ [][NextStream]_vars

\* Bodies of a few frames, read in every possible way of splitting them
\* into network reads.
InitChunks ==
  /\ messages = <<>>
  /\ isLoading = FALSE
  /\ toolCalls = [t \in ToolIds |-> NoToolCall]
  /\ interruptData = NoInterrupt
  /\ currentThreadId = NoId
  /\ errors = [k \in AccKeys |-> ""]
  /\ summarizations = <<>>
  /\ messageCount = 0
  /\ summarizationContent = <<>>
  /\ currentSummarizationId = NoId
  /\ stage = [s \in Sends |-> "idle"]
  /\ request = [s \in Sends |-> NoRequest]
  /\ threadId = [s \in Sends |-> NoId]
  /\ apiEndpoint = [s \in Sends |-> 0]
  /\ currentAssistantId = [s \in Sends |-> NoId]
  /\ accumulated = [s \in Sends |-> EmptyAccumulated]
  /\ lastText = NoLastText
  /\ unhandled = ""
  /\ norm = NoNorm
  /\ NoApproval
  /\ NoStatistics
  /\ wire \in UNION {WiresOfLen(n) : n \in 0..MaxSplitFrames}
  /\ arrived = 0
  /\ buffer = <<>>
  /\ currentEventType = NoLabel
  /\ currentData = NullData
  /\ dispatched = <<>>
  /\ reader = "reading"
  /\ closed = FALSE

NextChunks ==
  \/ \E k \in 1..(7 * MaxSplitFrames) : Read(k)
  \/ Close

SpecChunks == InitChunks /\ [][NextChunks]_vars

\* ------------------------------------------------------------- tool-call events
\* The events of one stream that concern tool calls: assistant chunks of two
\* messages that sight a call, tool results as [ToolMessage, metadata] and in
\* tools events, args finalizations, errors and end frames.
ToolChunkEvents ==
  {PairData(m, Meta("model", FALSE)) :
     m \in AIChunksOf(UpstreamIds, {NoContent}, SightedCalls)}

ResultMessages ==
  {FlatTool(t, n, "success") : t \in ToolIds \cup {NoId}, n \in {NoId, "send_email"}}
  \cup {LegacyTool(t, n, "success") : t \in ToolIds, n \in {NoId, "send_email"}}

ToolResultEvents == {PairData(tm, Meta("tools", FALSE)) : tm \in ResultMessages}

ToolsEvents ==
  {ToolsData(<<tm>>) : tm \in {FlatTool(t, "send_email", "success") : t \in ToolIds}}
  \cup {ToolsData(<<FlatTool("t1", "send_email", "error")>>)}
  \cup {ToolsData(<<>>), OtherData}

FinalCall(t) == ToolCallRec(t, "send_email", "final")
FinalCallLists ==
  {<<>>} \cup {<<FinalCall(t)>> : t \in ToolIds} \cup {<<FinalCall("t1"), FinalCall("t2")>>}
ModelRequestEvents ==
  {ModelRequestData(<<FlatAI("m1", NoContent, <<>>), LegacyAI("m1", NoContent, tcs)>>) :
     tcs \in FinalCallLists}
  \cup {ModelRequestData(<<FlatAI("m1", NoContent, <<FinalCall("t1")>>),
                          FlatAI("m2", NoContent, <<FinalCall("t2")>>)>>),
        OtherData}

NextTools ==
  \/ \E data \in ToolChunkEvents \cup ToolResultEvents :
       processUpdate(1, data) /\ OtherLocalsUnchanged
  \/ \E data \in ToolsEvents : OnTools(1, data) /\ OtherLocalsUnchanged
  \/ \E data \in ModelRequestEvents : OnModelRequest(1, data) /\ OtherLocalsUnchanged
  \/ OnError(1, "frame") /\ OtherLocalsUnchanged
  \/ OnEndFrame(1) /\ OtherLocalsUnchanged

SpecTools == InitText /\ [][NextTools]_vars

\* ============================================================= claims
\* ------------------------------------------------------------- turns
\* Several turns of one session: sends with and without an api key, the
\* response streams with text chunks of one upstream message id, explicit
\* end frames, the close of a stream, and the change of the scenario.
TurnUpdates ==
  {PairData(FlatAI("m1", StrContent(<<c>>), <<>>), Meta("model", FALSE)) :
     c \in {"a", "b"}}

NextTurns ==
  \/ \E apiKey \in ApiKeys : handleSend(UserText, apiKey) /\ OtherLocalsUnchanged
  \/ \E s \in Sends : FetchSucceeds(s) /\ OtherLocalsUnchanged
  \/ \E s \in Sends, data \in TurnUpdates :
       processUpdate(s, data) /\ OtherLocalsUnchanged
  \/ \E s \in Sends : OnEndFrame(s) /\ OtherLocalsUnchanged
  \/ \E s \in Sends : StreamClose(s) /\ OtherLocalsUnchanged
  \/ selectedScenario < MaxScenarios /\ ScenarioChange

SpecTurns == Init /\ [][NextTurns]_vars

\* ------------------------------------------------------------- message list
\* Everything that writes the message list: sends with and without an api
\* key, a failed and a successful fetch, chunks that open a bubble and set
\* its content, the end callback, and the change of the scenario.
MessageUpdates ==
  {PairData(FlatAI(mid, StrContent(<<"a">>), <<>>), Meta("model", FALSE)) :
     mid \in {"m1"}}

NextMessages ==
  \/ \E apiKey \in ApiKeys : handleSend(UserText, apiKey) /\ OtherLocalsUnchanged
  \/ \E s \in Sends : FetchFails(s) /\ OtherLocalsUnchanged
  \/ \E s \in Sends : FetchSucceeds(s) /\ OtherLocalsUnchanged
  \/ \E s \in Sends, data \in MessageUpdates :
       processUpdate(s, data) /\ OtherLocalsUnchanged
  \/ \E s \in Sends : OnEndFrame(s) /\ OtherLocalsUnchanged
  \/ \E s \in Sends : StreamClose(s) /\ OtherLocalsUnchanged
  \/ selectedScenario < MaxScenarios /\ ScenarioChange

SpecMessages == Init /\ [][NextMessages]_vars

\* ------------------------------------------------------------- message ids
\* Several turns of one session whose streams name two upstream messages in
\* any order: chunks without text, which open a bubble when their id is not
\* the current one of their send.
IdEvents ==
  {PairData(FlatAI(mid, NoContent, <<>>), Meta("model", FALSE)) :
     mid \in UpstreamIds}

NextIds ==
  \/ \E apiKey \in ApiKeys : handleSend(UserText, apiKey) /\ OtherLocalsUnchanged
  \/ \E s \in Sends : FetchSucceeds(s) /\ OtherLocalsUnchanged
  \/ \E s \in Sends, data \in IdEvents :
       processUpdate(s, data) /\ OtherLocalsUnchanged
  \/ \E s \in Sends : StreamClose(s) /\ OtherLocalsUnchanged

SpecIds == Init /\ [][NextIds]_vars

\* ------------------------------------------------------------- interleaving
\* One stream whose chunks belong to two upstream messages and arrive in any
\* interleaving: text chunks and chunks that sight the tool call of their
\* message (t1 is the call of m1, t2 the call of m2).
CallOf(mid) == IF mid = "m1" THEN "t1" ELSE "t2"
InterleaveEvents ==
  {PairData(FlatAI(mid, c, calls), Meta("model", FALSE)) :
     mid \in UpstreamIds,
     c \in {NoContent, StrContent(<<"a">>), StrContent(<<"b">>)},
     calls \in {<<>>}}
  \cup
  {PairData(FlatAI(mid, NoContent, <<ToolCallRec(CallOf(mid), "send_email", "partial")>>),
            Meta("model", FALSE)) : mid \in UpstreamIds}

NextInterleave ==
  \/ \E data \in InterleaveEvents : processUpdate(1, data) /\ OtherLocalsUnchanged
  \/ OnEndFrame(1) /\ OtherLocalsUnchanged

SpecInterleave == InitText /\ [][NextInterleave]_vars

\* ------------------------------------------------------------- classification
\* One frame (label, payload) is classified as readStream does before it
\* calls handleEvent.  The payloads: objects with a field __interrupt__,
\* interrupt arrays, [message, metadata] pairs, {tools}, {model_request},
\* {messages}, null and {}.
ClassifyLabels == UpstreamLabels \cup {"values", "debug", "update", "end"}
InterruptValues ==
  {HITLRequest(<<SendEmail>>, <<ReviewAll>>), HITLRequest(<<SendEmail>>, <<>>),
   NoInterrupt}
ClassifyPayloads ==
  {InterruptObjectData(v) : v \in InterruptValues}
  \cup {InterruptArrayData(v) : v \in InterruptValues}
  \cup {PairData(m, meta) :
          m \in AIChunksOf({"m1"}, {NoContent}, {<<>>})
                \cup {FlatTool("t1", "send_email", "success"), FlatHuman},
          meta \in {Meta("model", FALSE), Meta("", FALSE)}}
  \cup ToolsEvents
  \cup ModelRequestEvents
  \cup {AgentStateData(<<>>), NullData, OtherData}

Classify(label, payload) ==
  /\ ~norm.set
  /\ norm' = [set |-> TRUE, label |-> label, payload |-> payload,
              event |-> EventOf(label, payload)]
  /\ UNCHANGED <<clientVars, sendVars, obsVars, streamVars, selectedScenario, bubbleVars,
               serverVars, statVars>>

NextClassify ==
  \E label \in ClassifyLabels, payload \in ClassifyPayloads : Classify(label, payload)

SpecClassify == Init /\ [][NextClassify]_vars

\* ------------------------------------------------------------- streamResponse
\* What the agent stream yields: a [updateType, payload] array, or something
\* else (not an array, or an array of another length).  Payloads are JSON
\* values of the shapes LangGraph streams carry.
LangGraphUpdate(updateType, payload) ==
  [isArray |-> TRUE, length |-> 2, updateType |-> updateType, payload |-> payload]
NotAnArray == [isArray |-> FALSE, length |-> 0, updateType |-> "", payload |-> NullData]
ArrayOfLength(n) ==
  [isArray |-> TRUE, length |-> n, updateType |-> "", payload |-> NullData]

\* payload of the "messages" mode that is an array of messages
MessageListData(msgs) == [dk |-> "messageList", messages |-> msgs]
\* eventData of an interrupt whose value has actionRequests
ServerInterrupt(value, described) ==
  [dk |-> "hitl", action_requests |-> value.actionRequests,
   review_configs |-> value.reviewConfigs, described |-> described]
\* { model_request: { messages: [payload[0]], _privateState: {} } }
WrappedChunk(msg) == [dk |-> "model_request", messages |-> <<msg>>]

ForwardsEveryArray(update) == update.isArray

\* !(!Array.isArray(update) || update.length !== 2)
IsLangGraphUpdate(update) == update.isArray /\ update.length = 2

\* determineEventTypeFromPayload of the server
serverEventTypeFromPayload(payload) ==
  IF payload.dk = "null" THEN "update"
  ELSE IF payload.dk \in {"agent_state", "agent"} THEN "agent_state"
  ELSE IF payload.dk = "model_request" THEN "model_request"
  ELSE IF payload.dk = "tools" THEN "tools"
  ELSE IF payload.dk = "pair" /\ payload.msg.lc = 1 /\ payload.meta.node # ""
       THEN "model_request"
  ELSE "update"

\* msg.lc === 1 && msg.id[0..2] names an AIMessageChunk or AIMessage
IsSerializedAI(msg) == msg.lc = 1 /\ msg.idTag \in {"AIMessageChunk", "AIMessage"}

\* eventType and eventData of one [updateType, payload]
streamEvent(updateType, payload) ==
  LET asUpdate == [eventType |-> "update", eventData |-> payload]
      sniffed == [eventType |-> serverEventTypeFromPayload(payload),
                  eventData |-> payload]
      isObject == payload.dk # "null"
  IN
  IF updateType = "interrupt"
  THEN [eventType |-> "interrupt",
        eventData |-> IF payload.dk = "interruptArray" /\ payload.value.present
                      THEN ServerInterrupt(payload.value, FALSE)
                      ELSE IF payload.dk = "interruptArray" THEN payload.value
                      ELSE payload]
  ELSE IF updateType \in {"values", "updates"} /\ isObject
  THEN IF payload.dk = "interruptObject"
       THEN [eventType |-> "interrupt",
             eventData |-> IF payload.value.present
                           THEN ServerInterrupt(payload.value, TRUE)
                           ELSE payload.value]
       ELSE sniffed
  ELSE IF updateType = "messages" /\ payload.dk \in {"pair", "messageList", "interruptArray"}
  THEN IF payload.dk = "pair" /\ payload.msg.lc = 1 /\ payload.meta.node # ""
       THEN [eventType |-> "model_request", eventData |-> WrappedChunk(payload.msg)]
       ELSE LET listed == IF payload.dk = "messageList" THEN payload.messages
                          ELSE IF payload.dk = "pair" THEN <<payload.msg>>
                          ELSE <<>>
                aiMessages == SelectSeq(listed, IsSerializedAI)
            IN IF aiMessages # <<>>
               THEN [eventType |-> "agent", eventData |-> AgentData(aiMessages)]
               ELSE asUpdate
  ELSE IF isObject THEN sniffed
  ELSE asUpdate

\* controller.enqueue(encoder.encode(`event: ${eventType}\n`)) and
\* controller.enqueue(encoder.encode(`data: ${JSON.stringify(eventData)}\n\n`))
EnqueuedEvent(eventType) == [line |-> "event", value |-> eventType]
EnqueuedData(eventData) == [line |-> "data", value |-> eventData]
SseFrame(eventType, eventData) == <<EnqueuedEvent(eventType), EnqueuedData(eventData)>>

\* error instanceof Error ? error.message : "Unknown error occurred"
Thrown == {[isError |-> TRUE, message |-> "boom"], [isError |-> FALSE, message |-> ""]}
ErrorFrameData(error) ==
  [dk |-> "error", message |-> "",
   error |-> IF error.isError THEN error.message ELSE "Unknown error occurred"]

\* one turn of `for await (const update of agentStream)`
OnAgentUpdate(update) ==
  /\ controller = "open" /\ agentStream = "open"
  /\ Len(yielded) < MaxUpdates
  /\ yielded' = Append(yielded, update)
  /\ enqueued' =
       IF IsLangGraphUpdate(update)
       THEN LET ev == streamEvent(update.updateType, update.payload)
            IN enqueued \o SseFrame(ev.eventType, ev.eventData)
       ELSE enqueued
  /\ UNCHANGED <<agentStream, controller, postBody, postOutcome>>

\* the agent stream is exhausted: the completion event, then finally
OnAgentDone ==
  /\ controller = "open" /\ agentStream = "open"
  /\ agentStream' = "done"
  /\ enqueued' = enqueued \o SseFrame("end", EmptyObject)
  /\ controller' = "closed"
  /\ UNCHANGED <<yielded, postBody, postOutcome>>

\* iterating the agent stream throws: catch, then finally
OnAgentThrow(error) ==
  /\ controller = "open" /\ agentStream = "open"
  /\ agentStream' = "thrown"
  /\ enqueued' = enqueued \o SseFrame("error", ErrorFrameData(error))
  /\ controller' = "closed"
  /\ UNCHANGED <<yielded, postBody, postOutcome>>

AgentUpdates ==
  {NotAnArray, ArrayOfLength(1), ArrayOfLength(3),
   LangGraphUpdate("interrupt", InterruptArrayData(HITLRequest(<<SendEmail>>, <<ReviewAll>>))),
   LangGraphUpdate("interrupt", InterruptArrayData(NoInterrupt)),
   LangGraphUpdate("values", InterruptObjectData(HITLRequest(<<SendEmail>>, <<>>))),
   LangGraphUpdate("values", AgentStateData(<<>>)),
   LangGraphUpdate("values", NullData),
   LangGraphUpdate("updates", ModelRequestData(<<>>)),
   LangGraphUpdate("updates", ToolsData(<<>>)),
   LangGraphUpdate("messages",
                   PairData(LegacyAI("m1", StrContent(<<"a">>), <<>>), Meta("model", FALSE))),
   LangGraphUpdate("messages",
                   MessageListData(<<FlatHuman, LegacyAI("m1", NoContent, <<>>)>>)),
   LangGraphUpdate("messages", MessageListData(<<FlatHuman>>)),
   LangGraphUpdate("custom", OtherData)}

\* start(controller) has been called on a fresh agent stream
InitResponse ==
  /\ messages = <<>>
  /\ isLoading = FALSE
  /\ toolCalls = [t \in ToolIds |-> NoToolCall]
  /\ interruptData = NoInterrupt
  /\ currentThreadId = NoId
  /\ errors = [k \in AccKeys |-> ""]
  /\ summarizations = <<>>
  /\ messageCount = 0
  /\ summarizationContent = <<>>
  /\ currentSummarizationId = NoId
  /\ stage = [s \in Sends |-> "idle"]
  /\ request = [s \in Sends |-> NoRequest]
  /\ threadId = [s \in Sends |-> NoId]
  /\ apiEndpoint = [s \in Sends |-> 0]
  /\ currentAssistantId = [s \in Sends |-> NoId]
  /\ accumulated = [s \in Sends |-> EmptyAccumulated]
  /\ lastText = NoLastText
  /\ unhandled = ""
  /\ norm = NoNorm
  /\ NoStream
  /\ selectedScenario = 1
  /\ NoBubble
  /\ NoStatistics
  /\ postBody = [set |-> FALSE]
  /\ postOutcome = [set |-> FALSE]
  /\ agentStream = "open"
  /\ yielded = <<>>
  /\ enqueued = <<>>
  /\ controller = "open"

ResponseFrame ==
  UNCHANGED <<clientVars, sendVars, obsVars, normVars, streamVars, selectedScenario,
              bubbleVars, statVars>>

NextResponse ==
  \/ \E update \in AgentUpdates : OnAgentUpdate(update) /\ ResponseFrame
  \/ OnAgentDone /\ ResponseFrame
  \/ \E error \in Thrown : OnAgentThrow(error) /\ ResponseFrame

SpecResponse == InitResponse /\ [][NextResponse]_vars

\* ------------------------------------------------------------- statistics events
\* The callbacks that record statistics, over one stream, and the reset by a
\* change of the scenario.  usage_metadata of a message: absent, or the
\* three counts (0 = the key is absent or 0).
NoUsage == [present |-> FALSE, input_tokens |-> 0, output_tokens |-> 0, total_tokens |-> 0]
Usage(input, output, total) ==
  [present |-> TRUE, input_tokens |-> input, output_tokens |-> output,
   total_tokens |-> total]
WithUsage(msg, usage) == msg @@ [usage_metadata |-> usage]

RECURSIVE RecordToolCallsEvery(_, _)
RecordToolCallsEvery(acc, calls) ==
  IF calls = <<>> THEN acc
  ELSE LET tc == Head(calls)
           next == [acc EXCEPT !.statistics = recordToolCall(@, tc.name),
                               !.toolIds = @ \cup {tc.id}]
       IN RecordToolCallsEvery(next, Tail(calls))

\* for (const toolCall of toolCalls) if (!processedToolCallIdsRef.current.has(id)) ...
RECURSIVE RecordToolCalls(_, _)
RecordToolCalls(acc, calls) ==
  IF calls = <<>> THEN acc
  ELSE LET tc == Head(calls)
           next == IF tc.id \in acc.toolIds THEN acc
                   ELSE [acc EXCEPT !.statistics = recordToolCall(@, tc.name),
                                    !.toolIds = @ \cup {tc.id}]
       IN RecordToolCalls(next, Tail(calls))

\* the body of `for (const message of messages)`: the tokens of a message
\* are recorded once per message id, when input and total are positive
RecordMessage(acc, msg) ==
  LET usage == msg.usage_metadata
      input == usage.input_tokens
      output == usage.output_tokens
      total == IF usage.total_tokens # 0 THEN usage.total_tokens ELSE input + output
      messageId == MsgIdOf(msg)
      counted ==
        IF /\ usage.present /\ input > 0 /\ total > 0
           /\ messageId # NoId /\ messageId \notin acc.tokenIds
        THEN [acc EXCEPT !.statistics = recordTokens(@, input, output, total),
                         !.tokenIds = @ \cup {messageId}]
        ELSE acc
  IN RecordToolCalls(counted, ToolCallsOf(msg))

RECURSIVE RecordMessages(_, _)
RecordMessages(acc, msgs) ==
  IF msgs = <<>> THEN acc
  ELSE RecordMessages(RecordMessage(acc, Head(msgs)), Tail(msgs))

\* the agent_state callback
OnAgentState(s, data) ==
  /\ stage[s] = "reading"
  /\ statistics' =
       IF data.messages # <<>>
       THEN recordContextWindowSize(statisticsProvider, statistics,
                                    countTokensApproximately(data.messages))
       ELSE statistics
  /\ UNCHANGED <<processedTokenMessages, processedToolCallIds, statisticsProvider>>
  /\ UNCHANGED <<clientVars, sendVars, obsVars>>

\* the model_request callback with what it records: updateToolCallArgs,
\* recordModelCall, the context window size, then tokens and tool calls of
\* every message
OnModelRequestRecorded(s, data) ==
  LET counted == recordModelCall(statistics)
      sized == IF data.messages # <<>>
               THEN recordContextWindowSize(statisticsProvider, counted,
                                            countTokensApproximately(data.messages))
               ELSE counted
      acc == RecordMessages([statistics |-> sized, tokenIds |-> processedTokenMessages,
                             toolIds |-> processedToolCallIds], data.messages)
  IN
  /\ stage[s] = "reading"
  /\ statistics.modelCalls < MaxModelCalls
  /\ toolCalls' = updateToolCallArgs(toolCalls, data)
  /\ statistics' = acc.statistics
  /\ processedTokenMessages' = acc.tokenIds
  /\ processedToolCallIds' = acc.toolIds
  /\ UNCHANGED statisticsProvider
  /\ UNCHANGED <<messages, isLoading, interruptData, currentThreadId, errors,
                 summarizations, messageCount, summarizationContent,
                 currentSummarizationId>>
  /\ UNCHANGED <<sendVars, obsVars>>

StatMessages ==
  {WithUsage(FlatAI(mid, StrContent(text), calls), usage) :
     mid \in {"m1", "m2"},
     text \in {<<"a">>, <<"a", "b">>},
     calls \in {<<>>, <<ToolCallRec("t1", "send_email", "final")>>,
                <<ToolCallRec("t2", "search", "final")>>},
     usage \in {NoUsage, Usage(1, 1, 2), Usage(0, 1, 1), Usage(2, 1, 0)}}
RepeatedMessage ==
  WithUsage(FlatAI("m1", StrContent(<<"a">>),
                   <<ToolCallRec("t1", "send_email", "final")>>), Usage(1, 1, 2))
StatModelRequests ==
  {ModelRequestData(<<m>>) : m \in StatMessages}
  \cup {ModelRequestData(<<>>), ModelRequestData(<<RepeatedMessage, RepeatedMessage>>)}
StatAgentStates ==
  {AgentStateData(msgs) :
     msgs \in {<<>>, <<FlatAI("m1", StrContent(<<"a">>), <<>>)>>,
               <<FlatAI("m1", StrContent(<<"a">>), <<>>),
                 FlatAI("m2", PartsContent(<<TextPart(<<"a", "b">>),
                                            JsonDeltaPart(<<"a">>)>>), <<>>)>>}}

\* one stream is being read, under either definition of the provider
InitStatistics ==
  /\ messages = <<Msg(NoId, "user", UserText)>>
  /\ isLoading = TRUE
  /\ toolCalls = [t \in ToolIds |-> NoToolCall]
  /\ interruptData = NoInterrupt
  /\ currentThreadId = "thread-1"
  /\ errors = [k \in AccKeys |-> ""]
  /\ summarizations = <<>>
  /\ messageCount = 1
  /\ summarizationContent = <<>>
  /\ currentSummarizationId = NoId
  /\ stage = [s \in Sends |-> IF s = 1 THEN "reading" ELSE "idle"]
  /\ request = [s \in Sends |-> NoRequest]
  /\ threadId = [s \in Sends |-> IF s = 1 THEN "thread-1" ELSE NoId]
  /\ apiEndpoint = [s \in Sends |-> IF s = 1 THEN 1 ELSE 0]
  /\ currentAssistantId = [s \in Sends |-> IF s = 1 THEN SynthId(1) ELSE NoId]
  /\ accumulated = [s \in Sends |-> EmptyAccumulated]
  /\ lastText = NoLastText
  /\ unhandled = ""
  /\ norm = NoNorm
  /\ NoApproval
  /\ NoStream
  /\ statistics = InitialStatistics
  /\ processedTokenMessages = {}
  /\ processedToolCallIds = {}
  /\ statisticsProvider \in {1, 2}

StatFrame == UNCHANGED <<normVars, streamVars, selectedScenario, bubbleVars, serverVars>>

NextStatistics ==
  \/ \E data \in StatAgentStates : OnAgentState(1, data) /\ StatFrame
  \/ \E data \in StatModelRequests : OnModelRequestRecorded(1, data) /\ StatFrame
  \/ selectedScenario < MaxScenarios /\ ScenarioChange

SpecStatistics == InitStatistics /\ [][NextStatistics]_vars

\* ------------------------------------------------------------- rendered view
\* renderedItems: the messages with their list index and the summarizations
\* with afterMessageIndex + 0.5, sorted by that index (Array.prototype.sort
\* is stable).  Indices are held doubled, so that they stay integers.
MessageIndex(i) == 2 * (i - 1)
SummarizationIndexBefore(summ) == 2 * summ.afterMessageIndex - 1
SummarizationIndex(summ) == 2 * summ.afterMessageIndex + 1

MessageItem(msgs, i) ==
  [type |-> "message", index |-> MessageIndex(i), pos |-> i]
SummarizationItem(summs, j) ==
  [type |-> "summarization", index |-> SummarizationIndex(summs[j]), pos |-> j]

\* stable insertion of an item into a list sorted by index
RECURSIVE InsertedByIndex(_, _)
InsertedByIndex(sorted, item) ==
  IF sorted = <<>> THEN <<item>>
  ELSE IF sorted[Len(sorted)].index <= item.index THEN Append(sorted, item)
  ELSE Append(InsertedByIndex(SubSeq(sorted, 1, Len(sorted) - 1), item),
              sorted[Len(sorted)])

RECURSIVE SortedByIndex(_)
SortedByIndex(items) ==
  IF items = <<>> THEN <<>>
  ELSE InsertedByIndex(SortedByIndex(SubSeq(items, 1, Len(items) - 1)),
                       items[Len(items)])

renderedItems(msgs, summs) ==
  SortedByIndex([i \in DOMAIN msgs |-> MessageItem(msgs, i)]
                \o [j \in DOMAIN summs |-> SummarizationItem(summs, j)])

\* toolCallsByMessageId.get(message.id) for an AI message that has an id
associatedToolCalls(tcs, msg) ==
  IF msg.role = "assistant" /\ msg.id # NoId
  THEN {t \in ToolIds : tcs[t].present /\ tcs[t].aiMessageId # NoId
                        /\ tcs[t].aiMessageId = msg.id}
  ELSE {}

\* errors.get(message.id), shown for an AI message
errorMessageOf(errs, msg) ==
  IF msg.role = "assistant" /\ msg.id \in AccKeys THEN errs[msg.id] ELSE ""

\* what the component renders: per item the message with its tool calls and
\* error, or the summarization
RenderedView(msgs, summs, tcs, errs) ==
  LET items == renderedItems(msgs, summs) IN
  [k \in DOMAIN items |->
     IF items[k].type = "message"
     THEN [type |-> "message", pos |-> items[k].pos, message |-> msgs[items[k].pos],
           toolCalls |-> associatedToolCalls(tcs, msgs[items[k].pos]),
           error |-> errorMessageOf(errs, msgs[items[k].pos])]
     ELSE [type |-> "summarization", pos |-> items[k].pos,
           summarization |-> summs[items[k].pos]]]

\* ------------------------------------------------------------- summarizations
\* One stream with summarization chunks, model chunks of one message, a
\* tool call and its result, a summary object, an error frame, end frames
\* and the close of the stream; the scenario may change meanwhile.
SummaryEvents ==
  {PairData(FlatAI(NoId, StrContent(c), <<>>), Meta(SummNode, FALSE)) :
     c \in {<<"a">>}}
  \cup {PairData(FlatAI("m1", StrContent(<<"a">>), <<>>), Meta("model", FALSE))}
  \cup {PairData(FlatAI("m1", NoContent, <<ToolCallRec("t1", "send_email", "partial")>>),
                 Meta("model", FALSE)),
        PairData(FlatTool("t2", "send_email", "success"), Meta("tools", FALSE)),
        SummaryData(<<"a">>, TRUE)}

NextSummaries ==
  \/ \E data \in SummaryEvents : processUpdate(1, data) /\ OtherLocalsUnchanged
  \/ OnError(1, "frame") /\ OtherLocalsUnchanged
  \/ OnEndFrame(1) /\ OtherLocalsUnchanged
  \/ StreamClose(1) /\ OtherLocalsUnchanged
  \/ selectedScenario < MaxScenarios /\ ScenarioChange

SpecSummaries == InitText /\ [][NextSummaries]_vars

\* ------------------------------------------------------------- C1
\* the accumulated text of the message the last text-branch run fed
AccumulatedOfLastText ==
  IF lastText.send = 0 THEN <<>> ELSE accumulated[lastText.send][lastText.key]

\* C1 as stated: when the same chunk text is fed twice in a row for one
\* message id, the accumulated content after the second call equals the
\* content before the second call.
C1_DuplicateChunkIdempotent ==
  lastText.again => AccumulatedOfLastText = lastText.before

\* C1 as amended: when the same chunk text is fed twice in a row for one
\* message id, the second call leaves the accumulated content unchanged if it
\* already equals the chunk text (the first call started from nothing, was a
\* full replacement or a duplicate); otherwise the first call appended the
\* chunk as a delta and the second call appends it once more.
C1_DuplicateChunkAmended ==
  lastText.again =>
    IF lastText.before = lastText.text
    THEN AccumulatedOfLastText = lastText.before
    ELSE AccumulatedOfLastText = lastText.before \o lastText.text

\* the same chunk fed twice in a row, the content being that chunk already
C1_Witness ==
  /\ lastText.again
  /\ lastText.before = lastText.text
  /\ AccumulatedOfLastText = lastText.text

\* ------------------------------------------------------------- C2
\* the four rules of the accumulator, stated on characters
FourRuleReference(acc, chunk) ==
  IF Len(acc) = 0 THEN chunk
  ELSE IF Len(chunk) > Len(acc) /\ \A i \in 1..Len(acc) : chunk[i] = acc[i] THEN chunk
  ELSE IF chunk = acc THEN acc
  ELSE acc \o chunk

Hello == <<"H", "e", "l", "l", "o">>
HelloWorld == <<"H", "e", "l", "l", "o", ",", " ", "w", "o", "r", "l", "d">>

\* C2: after every run of the text branch with a non-empty chunk text, the
\* accumulated text of the message equals the four-rule reference applied to
\* the text accumulated before and the chunk text; accumulated "Hello"
\* followed by chunk "Hello, world" gives exactly "Hello, world".
C2_FourRuleAccumulator ==
  /\ lastText.send # 0 =>
       AccumulatedOfLastText = FourRuleReference(lastText.before, lastText.text)
  /\ Accumulate(Hello, HelloWorld) = HelloWorld

\* a full replacement happened: the chunk extends the accumulated text
C2_Witness ==
  /\ lastText.send # 0
  /\ lastText.before = <<"a">>
  /\ lastText.text = <<"a", "b">>
  /\ AccumulatedOfLastText = <<"a", "b">>

\* ------------------------------------------------------------- C3
\* C3: within one stream, no step shortens the accumulated text of any
\* message id.
C3_MonotonicGrowth ==
  [][\A s \in Sends : \A k \in AccKeys :
       Len(accumulated'[s][k]) >= Len(accumulated[s][k])]_vars

\* a message's text has grown in a second step, by a delta
C3_Witness ==
  /\ lastText.send # 0
  /\ lastText.before # <<>>
  /\ ~StartsWith(lastText.text, lastText.before)
  /\ Len(AccumulatedOfLastText) > Len(lastText.before)

\* C5: every resolution of a pending interrupt (approve, reject or edit)
\* that clears the interrupt also issues a request carrying the decision,
\* whatever the state of the stream that delivered it (the only other
\* outcome modelled is the missing-key warning, which adds a message).
C5_DecisionAlwaysSendsRequest ==
  [][(interruptData.present /\ ~interruptData'.present /\ messages' = messages)
       => \E s \in Sends : /\ stage[s] = "idle"
                           /\ stage'[s] = "fetching"
                           /\ request'[s].interruptResponse # NoResponse]_vars

\* C6: a new send that is not a resumption is issued only when no other
\* request or read loop is in flight, so two are never in flight for the
\* thread at once.
C6_NoConcurrentRequests ==
  [][\A s \in Sends :
       (stage[s] = "idle" /\ stage'[s] = "fetching"
          /\ request'[s].interruptResponse = NoResponse)
       => \A o \in Sends \ {s} : stage[o] \notin {"fetching", "reading"}]_vars

\* C7: when reader.read() rejects after the stream has started, an error
\* annotation is recorded, isLoading returns to false and no rejection
\* escapes unhandled.
C7_ReadFailureSurfaced ==
  [][\A s \in Sends :
       (stage[s] = "reading" /\ stage'[s] = "rejected")
       => /\ ~isLoading'
          /\ errors'[currentAssistantId[s]] # ""
          /\ unhandled' = unhandled]_vars

\* C8: every error annotation is keyed by the id of an assistant message
\* that is in the message list, so that it is rendered.
C8_ErrorKeyedByListedMessage ==
  \A k \in AccKeys :
    errors[k] # "" =>
      \E i \in DOMAIN messages : messages[i].id = k /\ messages[i].role = "assistant"

\* C4: a legacy (kwargs-wrapped) and a flat (type "ai") representation of
\* the same assistant delta, arriving as [message, metadata] with a
\* langgraph_node under the same upstream-native label, are both normalized
\* to kind "update" with the same content, id and tool calls.
C4_ShapeEquivalence ==
  (norm.set /\ norm.label \in UpstreamLabels /\ norm.meta.node # "")
    => /\ norm.flat.kind = "update"
       /\ norm.legacy.kind = "update"
       /\ norm.legacy = norm.flat

\* C9: a body made of a valid frame, a frame whose data line is not JSON
\* and another valid frame (each ended by a blank line, the valid ones
\* labelled update or unlabelled) has, once read, dispatched the first
\* frame, reported a parse error, dispatched the last frame, and ended.
C9_UpdateFrames == {f \in Frames : ~f.bad /\ f.blank /\ f.label \in {NoLabel, "update"}}
C9_BadFrames == {f \in Frames : f.bad /\ f.blank /\ f.label \in {NoLabel, "update"}}
C9_MalformedFrameRecovery ==
  (closed /\ Len(wire) = 3 /\ wire[1] \in C9_UpdateFrames
      /\ wire[2] \in C9_BadFrames /\ wire[3] \in C9_UpdateFrames)
    => dispatched = <<Call("update", wire[1].data, "line"),
                      Call("error", ErrorData("parse", ""), "line"),
                      Call("update", wire[3].data, "line"),
                      Call("end", NullData, "done")>>

\* C10: once the underlying stream has closed, readStream has invoked the
\* end callback for the close, whatever the body held.
C10_EndAlwaysCalled ==
  closed => \E i \in DOMAIN dispatched : dispatched[i] = Call("end", NullData, "done")

\* C11: a frame with a data line and no event line is dispatched to the
\* update callback: when the first frame of the body is such a frame (ended
\* by a blank line), the first callback invoked is update with its payload.
C11_UnlabelledFrameIsUpdate ==
  (closed /\ Len(wire) >= 1 /\ wire[1].label = NoLabel /\ ~wire[1].bad /\ wire[1].blank)
    => /\ dispatched # <<>>
       /\ dispatched[1] = Call("update", wire[1].data, "line")

\* C12: the callbacks invoked depend on the body alone, not on how it is
\* split into reads: at every moment they are the callbacks of processing
\* the lines completed so far in one piece, and after the close those of
\* reading the whole body in a single read.
C12_LinesCompleted ==
  Cardinality({i \in 1..arrived : TextOf(LinesOf(wire))[i] = NL})
C12_InOneRead ==
  LET st == ProcessLines(Locals(NoLabel, NullData, <<>>, FALSE),
                         SubSeq(LinesOf(wire), 1, C12_LinesCompleted))
  IN IF closed /\ ~st.thrown THEN Finish(st) ELSE st
C12_ChunkingInvariant ==
  reader # "idle" => dispatched = C12_InOneRead.dispatched

\* a read ended inside a line after a frame had been dispatched, and the
\* line was completed by a later read
C12_Witness ==
  /\ buffer # <<>>
  /\ dispatched # <<>>
  /\ \E i \in DOMAIN dispatched : dispatched[i].kind = "update"

\* a tool result event for tool message tm: as [ToolMessage, metadata] in an
\* update, or in a tools event
C13_ResultEvent(tm) ==
  \/ processUpdate(1, PairData(tm, Meta("tools", FALSE)))
  \/ OnTools(1, ToolsData(<<tm>>))

C13_Unseen(tm) == ToolCallIdOf(tm) # NoId /\ ~toolCalls[ToolCallIdOf(tm)].present

C13_NameCarried(tm) ==
  IF tm.name # NoId THEN tm.name
  ELSE IF tm.hasKwargs THEN tm.kwargs.name ELSE NoId

C14_FinalIds(data) ==
  {FirstToolCalls(data.messages)[i].id : i \in DOMAIN FirstToolCalls(data.messages)}

\* C14: a model_request event changes only the call descriptor (name, args)
\* of the entries whose id is in its first non-empty tool-calls list: their
\* result, errored flag and owner are unchanged, every other entry is
\* unchanged, and no entry is created or removed.
C14_ArgsFinalizationFrame ==
  [][\A data \in ModelRequestEvents \ {OtherData} :
       OnModelRequest(1, data)
       => \A t \in ToolIds :
            /\ toolCalls'[t].present = toolCalls[t].present
            /\ toolCalls'[t].toolMessage = toolCalls[t].toolMessage
            /\ toolCalls'[t].errored = toolCalls[t].errored
            /\ toolCalls'[t].aiMessageId = toolCalls[t].aiMessageId
            /\ (t \notin C14_FinalIds(data) \/ ~toolCalls[t].present)
                 => toolCalls'[t] = toolCalls[t]]_vars

\* a call with its result was finalized while a placeholder of another id
\* kept its empty args
C14_Witness ==
  /\ toolCalls["t1"].present /\ toolCalls["t1"].args = "final"
  /\ toolCalls["t1"].toolMessage = "success"
  /\ toolCalls["t2"].present /\ toolCalls["t2"].args = "empty"
  /\ toolCalls["t2"].name = "unknown"

\* the decisions listed by the review config whose action name is that of the
\* first action request shown
C15_Listed == allowedDecisions

\* C15: while an interrupt is pending, a decision is issued through the
\* bubble only if the review config of the first action request's name lists
\* it; with allowedDecisions = ["approve", "reject"] no edit is issued.
C15_OnlyListedDecisions ==
  [][/\ (BubbleApprove(<<>>, "sk") /\ MatchingConfigs # {}) => "approve" \in C15_Listed
     /\ (BubbleRejectConfirm(<<>>, "sk") /\ MatchingConfigs # {}) => "reject" \in C15_Listed
     /\ (handleEdit(<<>>, "sk") /\ MatchingConfigs # {}) => "edit" \in C15_Listed]_vars

\* the send issued by this step, if any
C16_Issued(s) == stage[s] = "idle" /\ stage'[s] = "fetching"

\* C16: the interruptResponse field of the request a decision issues holds
\* exactly: for approve one decision {type: "approve"}; for reject one
\* decision {type: "reject"} with a message only when a non-empty message
\* was given; for edit one decision {type: "edit", editedAction: {name, args}}
\* with the first action request's name and the edited args.
C16_PayloadShapes ==
  [][\A s \in Sends :
       /\ (BubbleApprove(<<>>, "sk") /\ C16_Issued(s))
            => request'[s].interruptResponse = << <<(<<"type", "approve">>)>> >>
       /\ (BubbleRejectConfirm(<<>>, "sk") /\ C16_Issued(s))
            => request'[s].interruptResponse =
                 IF rejectionMessage \in {"", " "}
                 THEN << <<(<<"type", "reject">>)>> >>
                 ELSE << << <<"type", "reject">>, <<"message", rejectionMessage>> >> >>
       /\ (handleEdit(<<>>, "sk") /\ C16_Issued(s))
            => request'[s].interruptResponse =
                 << << <<"type", "edit">>,
                       <<"editedAction.name", interruptData.actionRequests[1].name>>,
                       <<"editedAction.args", editedArgs>> >> >>]_vars

\* an edit with changed args is on its way to the server
C16_Witness ==
  \E s \in Sends :
    /\ stage[s] = "fetching"
    /\ request[s].interruptResponse =
         << << <<"type", "edit">>, <<"editedAction.name", "send_email">>,
               <<"editedAction.args", "edited">> >> >>

\* the sends that reached their request
C17_Requested == {s \in Sends : threadId[s] # NoId}

\* C17: the requests sent under one selection of the scenario all carry the
\* same threadId, the resumption requests included; it is the stored
\* currentThreadId as long as that scenario stays selected.
C17_OneThreadPerScenario ==
  /\ \A s1, s2 \in C17_Requested :
       apiEndpoint[s1] = apiEndpoint[s2] => threadId[s1] = threadId[s2]
  /\ \A s \in C17_Requested :
       apiEndpoint[s] = selectedScenario => threadId[s] = currentThreadId
  /\ \A s \in Sends :
       stage[s] = "fetching" => request[s].threadId = threadId[s]

\* a resumption request is in flight with the thread id of the first request
C17_Witness ==
  /\ stage[1] = "reading" /\ stage[2] = "fetching"
  /\ request[2].interruptResponse # NoResponse
  /\ apiEndpoint[1] = apiEndpoint[2]
  /\ request[2].threadId = threadId[1] /\ threadId[1] = "thread-1"

\* the calls of assistant message `owner` that wait for their result
C18_Waiting(tcs, owner) ==
  {t \in ToolIds : /\ tcs[t].present /\ tcs[t].aiMessageId = owner
                   /\ tcs[t].toolMessage = "" /\ ~tcs[t].errored}

\* C18: an error event marks every call of the current assistant message that
\* has no result as errored: after it none of them is still waiting, and the
\* calls that had a result or belong to another message are as they were.
C18_ErrorMarksPending ==
  [][OnError(1, "frame")
       => /\ C18_Waiting(toolCalls', currentAssistantId[1]) = {}
          /\ \A t \in C18_Waiting(toolCalls, currentAssistantId[1]) :
               toolCalls'[t] = [toolCalls[t] EXCEPT !.errored = TRUE]
          /\ \A t \in ToolIds :
               (toolCalls[t].toolMessage # "" \/ toolCalls[t].aiMessageId # currentAssistantId[1])
                 => toolCalls'[t] = toolCalls[t]]_vars

\* two calls of one message were pending when the error came
C18_Witness ==
  /\ errors[currentAssistantId[1]] = "frame"
  /\ \A t \in ToolIds : /\ toolCalls[t].present /\ toolCalls[t].errored
                        /\ toolCalls[t].toolMessage = ""
                        /\ toolCalls[t].aiMessageId = currentAssistantId[1]

\* C19: the pending interrupt is set only by an interrupt event that carries
\* at least one action request: a step from no pending interrupt to a pending
\* one is the interrupt callback run on such an event, and the pending
\* interrupt is that event's data.
C19_OnlyInterruptEventSetsPending ==
  [][(~interruptData.present /\ interruptData'.present)
       => \E s \in Sends, data \in ApprovalInterrupts :
            /\ OnInterrupt(s, data)
            /\ data.actionRequests # <<>>
            /\ interruptData' = data]_vars

\* an interrupt is pending in a session where events of other kinds were
\* handled before it (a tool result, an error)
C19_Witness ==
  /\ interruptData.present /\ interruptData.actionRequests # <<>>
  /\ toolCalls["t1"].present
  /\ \E s \in Sends : currentAssistantId[s] # NoId /\ errors[currentAssistantId[s]] = "frame"

\* C20: a request to the HITL route that has a key and whose body contains
\* a (non-empty) interruptResponse is never refused for its empty message
\* and never starts a fresh turn: the agent is resumed.
C20_InterruptResponseResumes ==
  (postOutcome.set /\ postBody.apiKey # "" /\ Truthy(postBody.interruptResponse))
    => postOutcome.status = 200 /\ postOutcome.run = "resume"

\* the ids of the tool calls an assistant chunk carries
C21_SightedIds(msg) == {ToolCallsOf(msg)[i].id : i \in DOMAIN ToolCallsOf(msg)}

\* C21: an assistant chunk that carries tool calls registers an entry only
\* for the ids that have none (with the chunk's descriptor, no result, not
\* errored, owned by the chunk's message); every entry that exists is left
\* as it was.
C21_SightedRegistersOnlyUnseen ==
  [][\A data \in ToolChunkEvents :
       processUpdate(1, data)
       => \A t \in ToolIds :
            /\ toolCalls[t].present => toolCalls'[t] = toolCalls[t]
            /\ (~toolCalls[t].present /\ toolCalls'[t].present)
                 => /\ t \in C21_SightedIds(data.msg)
                    /\ toolCalls'[t].toolMessage = ""
                    /\ ~toolCalls'[t].errored
                    /\ toolCalls'[t].args = "partial"
                    /\ toolCalls'[t].aiMessageId = MsgIdOf(data.msg)
            /\ (~toolCalls[t].present /\ t \in C21_SightedIds(data.msg))
                 => toolCalls'[t].present]_vars

\* a call registered under message m1 kept its owner, final args and result
\* while the stream moved on to m2, which registered the other call
C21_Witness ==
  /\ currentAssistantId[1] = "m2"
  /\ toolCalls["t1"].present /\ toolCalls["t1"].aiMessageId = "m1"
  /\ toolCalls["t1"].args = "final" /\ toolCalls["t1"].toolMessage = "success"
  /\ toolCalls["t2"].present /\ toolCalls["t2"].aiMessageId = "m2"
  /\ toolCalls["t2"].args = "partial"

\* C22: the result of a tool call is set once: a result that is attached to
\* an id is not changed by any later event of the stream.
C22_ResultSetOnce ==
  [][\A t \in ToolIds :
       (toolCalls[t].present /\ toolCalls[t].toolMessage # "")
         => toolCalls'[t].toolMessage = toolCalls[t].toolMessage]_vars

\* C23: tool-call state never regresses.  Under every event of a stream
\* (call sighted, args finalization, result, error, end) an entry of the
\* tool-call map stays in the map, and an entry that has a result or is
\* marked errored does not return to pending (no result and not errored).
C23_Settled(tc) == tc.present /\ (tc.toolMessage # "" \/ tc.errored)
C23_NeverRegresses ==
  [][\A t \in ToolIds :
       /\ toolCalls[t].present => toolCalls'[t].present
       /\ C23_Settled(toolCalls[t]) => C23_Settled(toolCalls'[t])]_vars

\* an errored call that later received its result and its final arguments
C23_Witness ==
  /\ toolCalls["t1"].present
  /\ toolCalls["t1"].errored
  /\ toolCalls["t1"].toolMessage = "success"
  /\ toolCalls["t1"].args = "final"
  /\ ~isLoading

\* the entry of call tc after "sighted under owner, then result tm"
C24_SightedThenResult(tc, tm, owner) ==
  WithToolMessage(WithSightedCalls([t \in ToolIds |-> NoToolCall], <<tc>>, owner),
                  tm, owner)[tc.id]

\* C24: the tracker reconciles by id regardless of arrival order.  When the
\* result of an id arrived before its call was sighted (the entry is the
\* placeholder of the result alone), the sighting of the call leaves the
\* entry with the name, args, result and owner message id it has when the
\* call is sighted first and the result arrives second.
C24_OrderIndependent ==
  [][\A data \in ToolChunkEvents : \A tm \in ResultMessages :
       LET calls == ToolCallsOf(data.msg) IN
       ( /\ calls # <<>>
         /\ ToolCallIdOf(tm) = calls[1].id
         /\ toolCalls[calls[1].id] =
              WithToolMessage([t \in ToolIds |-> NoToolCall], tm,
                              toolCalls[calls[1].id].aiMessageId)[calls[1].id]
         /\ processUpdate(1, data) )
       => toolCalls'[calls[1].id] =
            C24_SightedThenResult(calls[1], tm, MsgIdOf(data.msg))]_vars

\* a call the error of message `owner` is about: owned by it, without result
C25_Failed(tc, owner) == tc.present /\ tc.aiMessageId = owner /\ tc.toolMessage = ""

\* C25: marking a failed turn is idempotent and local.  An error event
\* changes only the errored flag of the calls that are owned by the current
\* assistant message and lack a result; calls that have a result and calls
\* of other messages are unchanged; when nothing is left to mark (a second
\* error event) the scan finds no update and the map is kept as it is; and
\* marking the marked map again changes nothing.
C25_MarkingIdempotentLocal ==
  [][OnError(1, "frame")
     => LET owner == currentAssistantId[1] IN
        /\ \A t \in ToolIds :
             IF C25_Failed(toolCalls[t], owner)
             THEN toolCalls'[t] = [toolCalls[t] EXCEPT !.errored = TRUE]
             ELSE toolCalls'[t] = toolCalls[t]
        /\ (\A t \in ToolIds : C25_Failed(toolCalls[t], owner) => toolCalls[t].errored)
             => (~needsUpdate(toolCalls, owner) /\ toolCalls' = toolCalls)
        /\ ~needsUpdate(toolCalls', owner)
        /\ MarkErrored(toolCalls', owner) = toolCalls']_vars

\* after an error under message m2: its call without result is marked, the
\* call of m1 without result and the call that has a result are not
C25_Witness ==
  /\ currentAssistantId[1] = "m2"
  /\ ~isLoading /\ errors["m2"] = "frame"
  /\ toolCalls["t1"].present /\ toolCalls["t1"].aiMessageId = "m1"
  /\ toolCalls["t1"].toolMessage = "" /\ ~toolCalls["t1"].errored
  /\ toolCalls["t2"].present /\ toolCalls["t2"].aiMessageId = "m2"
  /\ toolCalls["t2"].toolMessage = "" /\ toolCalls["t2"].errored

\* the stream of send s ended (reader.read() returned done and the end
\* callback ran) after producing text for message id, and no stream of an
\* earlier turn is still being read
C26_ProducedAndEnded(id) ==
  \E s \in Sends :
    /\ stage[s] = "closed"
    /\ id \in AccKeys /\ accumulated[s][id] # <<>>
    /\ \A earlier \in 1..s : stage[earlier] # "reading"

\* C26: message content is frozen at stream end.  Once the stream that
\* produced an assistant message has ended, no later step of the session
\* (short of a scenario change, which empties the list) changes the content
\* of that message.
C26_FrozenAtStreamEnd ==
  [][selectedScenario' = selectedScenario
     => \A i \in DOMAIN messages :
          (messages[i].role = "assistant" /\ C26_ProducedAndEnded(messages[i].id))
          => (i \in DOMAIN messages' /\ messages'[i].content = messages[i].content)]_vars

\* the content shown for message id (empty when it has no bubble)
C27_ContentOf(msgs, id) ==
  IF \E i \in DOMAIN msgs : msgs[i].id = id
  THEN msgs[CHOOSE i \in DOMAIN msgs : msgs[i].id = id].content
  ELSE <<>>

\* C27: cross-message interleaving is tolerated.  Wherever a chunk of
\* message id X arrives among the chunks of another message, it changes the
\* text of X only, to the accumulator's result on X's own text so far and
\* the chunk, which is what X shows; the text and content of every other
\* message and the owner of every registered tool call are left as they
\* were, and a tool call the chunk registers is owned by X.  So the content
\* of a message is the fold of its own chunks, whatever is interleaved.
C27_InterleavingTolerated ==
  [][\A data \in InterleaveEvents :
       processUpdate(1, data)
       => LET X == MsgIdOf(data.msg)
              chunk == extractIncrementalTextFromChunk(data.msg)
              text == IF chunk.null THEN <<>> ELSE chunk.text
          IN
          /\ accumulated'[1][X] =
               IF text = <<>> THEN accumulated[1][X]
               ELSE Accumulate(accumulated[1][X], text)
          /\ C27_ContentOf(messages', X) = accumulated'[1][X]
          /\ \A Y \in AccKeys \ {X} :
               /\ accumulated'[1][Y] = accumulated[1][Y]
               /\ C27_ContentOf(messages', Y) = C27_ContentOf(messages, Y)
          /\ \A t \in ToolIds :
               /\ toolCalls[t].present => toolCalls'[t] = toolCalls[t]
               /\ (~toolCalls[t].present /\ toolCalls'[t].present)
                    => toolCalls'[t].aiMessageId = X]_vars

\* chunks of m1 arrived before and after the chunks of m2: each message
\* shows its own text and owns its own tool call
C27_Witness ==
  /\ currentAssistantId[1] = "m1"
  /\ C27_ContentOf(messages, "m1") = <<"a", "b">>
  /\ C27_ContentOf(messages, "m2") = <<"b", "a">>
  /\ Len(messages) = 3 /\ messages[2].id = "m1" /\ messages[3].id = "m2"
  /\ toolCalls["t1"].present /\ toolCalls["t1"].aiMessageId = "m1"
  /\ toolCalls["t2"].present /\ toolCalls["t2"].aiMessageId = "m2"

\* C28: messages are never deleted within a session.  A step that is not a
\* scenario change leaves every message at its position with its role and
\* id and only appends at the end; a step that empties a non-empty list is
\* a scenario change.
C28_AppendOnly ==
  [][/\ selectedScenario' = selectedScenario
          => /\ Len(messages') >= Len(messages)
             /\ \A i \in DOMAIN messages :
                  /\ messages'[i].id = messages[i].id
                  /\ messages'[i].role = messages[i].role
     /\ (messages # <<>> /\ messages' = <<>>)
          => selectedScenario' # selectedScenario]_vars

\* a user message, the bubble of m1 with its text, then the user message of
\* the next turn, whose stream is being read
C28_Witness ==
  /\ selectedScenario = 1
  /\ Len(messages) = 3
  /\ messages[1].role = "user"
  /\ messages[2] = Msg("m1", "assistant", <<"a">>)
  /\ messages[3] = Msg(NoId, "user", UserText)
  /\ stage[2] = "reading"

\* C29: switching the active scenario resets all client-side state
\* unconditionally.  Right after the switch the messages, tool calls,
\* pending interrupt, thread id, summarizations, errors and the loading flag
\* have their initial values, whether or not a stream was active.
C29_SwitchResetsAll ==
  [][selectedScenario' # selectedScenario
     => /\ messages' = <<>>
        /\ toolCalls' = [t \in ToolIds |-> NoToolCall]
        /\ interruptData' = NoInterrupt
        /\ currentThreadId' = NoId
        /\ summarizations' = <<>>
        /\ errors' = [k \in AccKeys |-> ""]
        /\ messageCount' = 0
        /\ isLoading' = FALSE]_vars

\* C30: under every upstream-native label a payload that contains a field
\* __interrupt__ is classified as kind interrupt, and every classified event
\* has one kind of the fixed set.
C30_InterruptUnderEveryLabel ==
  norm.set
  => /\ norm.event.eventType \in EVENT_TYPES
     /\ (norm.label \notin EVENT_TYPES /\ norm.payload.dk = "interruptObject")
          => norm.event.eventType = "interrupt"

\* C31: every statistics counter (the count of each tool, the model calls,
\* the input, output and total tokens, the context-window size) is
\* non-decreasing in every step that is not a change of the scenario.
C31_CountersMonotonic ==
  [][selectedScenario' = selectedScenario
     => /\ \A n \in ToolNames : statistics'.toolCalls[n] >= statistics.toolCalls[n]
        /\ statistics'.modelCalls >= statistics.modelCalls
        /\ statistics'.tokens.input >= statistics.tokens.input
        /\ statistics'.tokens.output >= statistics.tokens.output
        /\ statistics'.tokens.total >= statistics.tokens.total
        /\ statistics'.contextWindowSize >= statistics.contextWindowSize]_vars

\* the rendered view of the state
C32_View == RenderedView(messages, summarizations, toolCalls, errors)
C32_At(view, type, pos) ==
  CHOOSE k \in DOMAIN view : view[k].type = type /\ view[k].pos = pos

\* C32: the rendered view holds every message and every summarization once;
\* the messages keep their list order; a summarization stands after the
\* message at index afterMessageIndex and before the message at index
\* afterMessageIndex + 1 (0-based indices); and a tool call is attached to a
\* message only when its owner id is the id of that message.
C32_ViewOrdered ==
  LET view == C32_View IN
  /\ Len(view) = Len(messages) + Len(summarizations)
  /\ \A i \in DOMAIN messages : \E k \in DOMAIN view :
       view[k].type = "message" /\ view[k].pos = i /\ view[k].message = messages[i]
  /\ \A i, j \in DOMAIN messages :
       i < j => C32_At(view, "message", i) < C32_At(view, "message", j)
  /\ \A j \in DOMAIN summarizations : \A i \in DOMAIN messages :
       IF i - 1 <= summarizations[j].afterMessageIndex
       THEN C32_At(view, "message", i) < C32_At(view, "summarization", j)
       ELSE C32_At(view, "summarization", j) < C32_At(view, "message", i)
  /\ \A k \in DOMAIN view : \A t \in ToolIds :
       (view[k].type = "message" /\ t \in view[k].toolCalls)
       => (toolCalls[t].present /\ toolCalls[t].aiMessageId = view[k].message.id)
  /\ \A t \in ToolIds : \A i \in DOMAIN messages :
       (toolCalls[t].present /\ messages[i].role = "assistant" /\ messages[i].id # NoId
        /\ toolCalls[t].aiMessageId = messages[i].id)
       => t \in view[C32_At(view, "message", i)].toolCalls

\* a summarization made before the bubble of m1 and one made after it, the
\* call t1 owned by m1 and the call t2 owned by no message
C32_Witness ==
  /\ Len(messages) = 2 /\ messages[2].id = "m1"
  /\ Len(summarizations) = 2
  /\ summarizations[1].afterMessageIndex = 0
  /\ summarizations[2].afterMessageIndex = 1
  /\ toolCalls["t1"].present /\ toolCalls["t1"].aiMessageId = "m1"
  /\ toolCalls["t2"].present /\ toolCalls["t2"].aiMessageId # "m1"
  /\ [k \in DOMAIN C32_View |-> C32_View[k].type]
       = <<"message", "summarization", "message", "summarization">>

C33_Streaming(summs) == {i \in DOMAIN summs : summs[i].isStreaming}

\* C33: every summarization is finalized on stream end.  After a step in
\* which the end callback of the stream ran, no summarization has
\* isStreaming = true; and at no time are two summarizations streaming.
C33_FinalizedOnEnd ==
  /\ [][(OnEndFrame(1) \/ StreamClose(1)) => C33_Streaming(summarizations') = {}]_vars
  /\ [](Cardinality(C33_Streaming(summarizations)) <= 1)

\* C34: readStream dispatches each frame at most once and the end callback
\* of the close is the last callback of the stream.  Once the stream has
\* closed and readStream has returned, the last callback invoked is the end
\* callback of the done branch, and no callback invoked after it repeats the
\* one the done branch made for the pending frame.
C34_EndOfCloseIsLast ==
  (closed /\ reader = "done")
  => /\ dispatched # <<>>
     /\ dispatched[Len(dispatched)] = Call("end", NullData, "done")
     /\ \A i, j \in DOMAIN dispatched :
          (i < j /\ dispatched[i].site = "done" /\ dispatched[j].site = "after")
          => dispatched[i].kind # dispatched[j].kind

\* the callbacks readStream makes for a frame of the body: neither the end
\* callback of the close nor the report of a data line that is not JSON
C35_FrameCalls ==
  {i \in DOMAIN dispatched :
     /\ dispatched[i] # Call("end", NullData, "done")
     /\ dispatched[i].kind # "error"}

\* C35: every (label, payload) pair readStream dispatches comes from the
\* event line and the data line of one frame: the body holds a frame with
\* that label whose data line parsed to that payload.
C35_PairFromOneFrame ==
  \A i \in C35_FrameCalls : \E k \in DOMAIN wire :
    /\ wire[k].label = dispatched[i].kind
    /\ ~wire[k].bad
    /\ (dispatched[i].kind # "end" => wire[k].data = dispatched[i].data)

\* C36: after a switch of the scenario, an update of a stream whose send was
\* made before the switch adds and changes nothing: messages, tool calls,
\* interrupt, errors, summarizations and statistics stay as the switch left
\* them.
C36_StaleStreamSilent ==
  [][\A s \in Sends, data \in MessageUpdates :
       (/\ stage[s] = "reading"
        /\ apiEndpoint[s] # selectedScenario
        /\ processUpdate(s, data))
       => UNCHANGED <<messages, toolCalls, interruptData, errors,
                      summarizations, statistics>>]_vars

\* C37: the owner message id of every tracked tool call is the id of an
\* assistant message of the message list, placeholders made by a result
\* that arrives before any assistant chunk of the turn included.
C37_OwnerIsListed ==
  \A t \in ToolIds :
    toolCalls[t].present
    => \E i \in DOMAIN messages :
         /\ messages[i].role = "assistant"
         /\ messages[i].id = toolCalls[t].aiMessageId

\* C38: no two messages of the list share an assistant message id: a chunk
\* for an id that has a message appends no second one, however the ids
\* alternate in a stream and across the turns of a session.  (The warning
\* shown for a send without an api key is a message that has no id.)
C38_UniqueAssistantIds ==
  \A i, j \in DOMAIN messages :
    (/\ i # j
     /\ messages[i].id # NoId
     /\ messages[i].role = "assistant"
     /\ messages[j].role = "assistant")
    => messages[i].id # messages[j].id

\* the second turn is being read: it has named m2, which got its bubble, and
\* then m1 again, which has its bubble from the first turn
C38_Witness ==
  /\ Len(messages) = 4
  /\ messages[2] = Msg("m1", "assistant", <<>>)
  /\ messages[3].role = "user"
  /\ messages[4] = Msg("m2", "assistant", <<>>)
  /\ stage[1] = "closed"
  /\ stage[2] = "reading"
  /\ currentAssistantId[2] = "m1"

\* the tool-call ids an event names, and the ids of its messages whose usage
\* has positive input and total counts
C39_CallIds(data) ==
  UNION {{ToolCallsOf(data.messages[i])[k].id :
            k \in DOMAIN ToolCallsOf(data.messages[i])} :
         i \in DOMAIN data.messages}
C39_UsageIds(data) ==
  {MsgIdOf(data.messages[i]) : i \in
     {j \in DOMAIN data.messages :
        LET u == data.messages[j].usage_metadata IN
        /\ u.present /\ u.input_tokens > 0
        /\ (u.total_tokens > 0 \/ u.input_tokens + u.output_tokens > 0)}} \ {NoId}
C39_ToolSum(st) == st.toolCalls["send_email"] + st.toolCalls["search"]

\* C39: tokens are added at most once per message id and a tool invocation
\* is counted at most once per tool-call id, however often model_request
\* events repeat them: an event adds to the tool counts the number of its
\* tool-call ids not seen since the last reset and changes the tokens only
\* when it brings a message id with usage that was not seen; so the sum of
\* the per-tool counts is the number of distinct tool-call ids seen.
C39_CountedOnce ==
  /\ [](C39_ToolSum(statistics) = Cardinality(processedToolCallIds))
  /\ [][\A data \in StatModelRequests :
          OnModelRequestRecorded(1, data)
          => /\ processedToolCallIds' = processedToolCallIds \cup C39_CallIds(data)
             /\ C39_ToolSum(statistics') = C39_ToolSum(statistics)
                  + Cardinality(C39_CallIds(data) \ processedToolCallIds)
             /\ processedTokenMessages' = processedTokenMessages \cup C39_UsageIds(data)
             /\ (C39_UsageIds(data) \subseteq processedTokenMessages
                   => statistics'.tokens = statistics.tokens)
             /\ (~(C39_UsageIds(data) \subseteq processedTokenMessages)
                   => statistics'.tokens.total > statistics.tokens.total)]_vars

\* three model_request events that named the calls t1 and t2 and repeated
\* the message m1, whose tokens were added once
C39_Witness ==
  /\ statistics.modelCalls = 3
  /\ processedToolCallIds = {"t1", "t2"}
  /\ statistics.toolCalls["send_email"] = 1
  /\ statistics.toolCalls["search"] = 1
  /\ processedTokenMessages = {"m1"}
  /\ statistics.tokens = [input |-> 1, output |-> 1, total |-> 2]

\* the two-element arrays among the updates yielded so far, in order
C40_Forwarded ==
  SelectSeq(yielded, LAMBDA u : u.isArray /\ u.length = 2)
C40_Terminal(k) ==
  /\ enqueued[k].line = "event"
  /\ enqueued[k].value \in {"end", "error"}

\* C40: streamResponse emits one event:/data: frame for every update that is
\* a 2-element array, in the order of the updates, and none for any other
\* update; it emits exactly one terminal frame, as the last frame, in the
\* step in which it closes the stream: the end frame when the agent stream
\* is exhausted, the error frame and no end frame when iterating it throws.
C40_OneTerminalFrame ==
  LET fwd == C40_Forwarded
      ended == agentStream \in {"done", "thrown"}
  IN
  /\ ended <=> controller = "closed"
  /\ Len(enqueued) = 2 * Len(fwd) + (IF ended THEN 2 ELSE 0)
  /\ \A k \in DOMAIN fwd :
       LET ev == streamEvent(fwd[k].updateType, fwd[k].payload) IN
       /\ enqueued[2 * k - 1] = EnqueuedEvent(ev.eventType)
       /\ enqueued[2 * k] = EnqueuedData(ev.eventData)
       /\ ~C40_Terminal(2 * k - 1)
  /\ agentStream = "done"
       => SubSeq(enqueued, Len(enqueued) - 1, Len(enqueued)) = SseFrame("end", EmptyObject)
  /\ agentStream = "thrown"
       => /\ enqueued[Len(enqueued) - 1] = EnqueuedEvent("error")
          /\ enqueued[Len(enqueued)].line = "data"
          /\ enqueued[Len(enqueued)].value.dk = "error"
  /\ Cardinality({k \in DOMAIN enqueued : C40_Terminal(k)}) = (IF ended THEN 1 ELSE 0)

\* an update that is no 2-element array between two that are, then a throw:
\* two frames in the order of their updates, then the error frame
C40_Witness ==
  /\ agentStream = "thrown" /\ controller = "closed"
  /\ Len(yielded) = 3
  /\ yielded[1] = LangGraphUpdate("updates", ToolsData(<<>>))
  /\ yielded[2] = ArrayOfLength(3)
  /\ yielded[3] = LangGraphUpdate("interrupt",
                                  InterruptArrayData(HITLRequest(<<SendEmail>>, <<ReviewAll>>)))
  /\ [k \in DOMAIN enqueued |-> IF enqueued[k].line = "event" THEN enqueued[k].value ELSE ""]
       = <<"tools", "", "interrupt", "", "error", "">>

====
